---- MODULE Spec2Model ----
(***************************************************************************)
(* Render-pass execute-state builder (icd/api/renderpass/                  *)
(* renderpass_builder.cpp).  RenderPassBuilder::Build runs its phases in   *)
(* order: BuildInitialState, BuildSubpass for each subpass, BuildEndState, *)
(* Finalize, Cleanup.  Every phase is one action; the arena and the        *)
(* permanent allocator may fail at any allocation.                         *)
(*                                                                         *)
(* Arrays of the source are functions over 0..n-1 (same indices as the     *)
(* code); growing lists (Util::Vector / Util::List) are sequences.         *)
(* Bit masks made of named flag bits (AttachRef*, barrier.flags) are sets  *)
(* of flag names: OR is union, "!= 0" is non-emptiness.  Stage and access  *)
(* masks are numbers combined with BitOr.                                  *)
(***************************************************************************)
EXTENDS Integers, Sequences, FiniteSets, TLC

VARIABLES
    apiInfo,         \* m_pApiInfo / m_pInfo: the render pass description
    m_pAttachments,  \* AttachmentState array
    m_pSubpasses,    \* SubpassState array
    m_endState,      \* EndState
    result,          \* Pal::Result carried through Build
    pc,              \* position inside Build
    subpass,         \* loop variable of Build's subpass loop
    ppResult,        \* *ppResult of the caller
    heap,            \* blocks obtained from pAllocator and not freed
    trackLog,        \* history: one entry per TrackAttachmentUsage call
    dependencyLog,   \* history: one entry per dependency record examined
    waitLog,         \* history: one entry per WaitForResolves call
    phaseLog         \* history: the phases Build has run, in order

vars == <<apiInfo, m_pAttachments, m_pSubpasses, m_endState, result, pc,
          subpass, ppResult, heap, trackLog, dependencyLog, waitLog, phaseLog>>

(***************************************************************************)
(* Sentinels and enumerations                                              *)
(***************************************************************************)
\* ~0U in the source; the largest integer of the model stands for it.
VK_SUBPASS_EXTERNAL == 2147483647

VK_ATTACHMENT_UNUSED == 2147483647

\* Pal::MaxColorTargets, the size of bindTargets.colorTargets
MaxColorTargets == 8

nullptr == <<>>

Success == "Success"

ErrorOutOfMemory == "ErrorOutOfMemory"

AttachRefExternalPostInstance == "AttachRefExternalPostInstance"

AttachRefColor == "AttachRefColor"

AttachRefInput == "AttachRefInput"

AttachRefDepthStencil == "AttachRefDepthStencil"

AttachRefResolveSrc == "AttachRefResolveSrc"

AttachRefResolveDst == "AttachRefResolveDst"

AttachRefPreserve == "AttachRefPreserve"

VK_ATTACHMENT_LOAD_OP_LOAD == "LOAD_OP_LOAD"

VK_ATTACHMENT_LOAD_OP_CLEAR == "LOAD_OP_CLEAR"

VK_ATTACHMENT_LOAD_OP_DONT_CARE == "LOAD_OP_DONT_CARE"

VK_IMAGE_ASPECT_COLOR_BIT == "ASPECT_COLOR"

VK_IMAGE_ASPECT_DEPTH_BIT == "ASPECT_DEPTH"

VK_IMAGE_ASPECT_STENCIL_BIT == "ASPECT_STENCIL"

VK_IMAGE_LAYOUT_UNDEFINED == "UNDEFINED"

VK_IMAGE_LAYOUT_GENERAL == "GENERAL"

VK_IMAGE_LAYOUT_COLOR_ATTACHMENT_OPTIMAL == "COLOR_ATTACHMENT_OPTIMAL"

VK_IMAGE_LAYOUT_DEPTH_STENCIL_ATTACHMENT_OPTIMAL == "DEPTH_STENCIL_ATTACHMENT_OPTIMAL"

VK_IMAGE_LAYOUT_SHADER_READ_ONLY_OPTIMAL == "SHADER_READ_ONLY_OPTIMAL"

\* Pal::LayoutResolveSrc / Pal::LayoutResolveDst usage bits (extraUsage)
LayoutResolveSrc == {"LayoutResolveSrc"}

LayoutResolveDst == {"LayoutResolveDst"}

\* Formats::IsColorFormat / HasDepth / HasStencil on the format classes
IsColorFormat(format) == format = "COLOR"

HasDepth(format) == format \in {"DEPTH", "DEPTH_STENCIL"}

HasStencil(format) == format \in {"STENCIL", "DEPTH_STENCIL"}

(***************************************************************************)
(* Bitwise OR of two naturals (operator |= on the stage/access masks)      *)
(***************************************************************************)
RECURSIVE BitOr(_, _)
BitOr(a, b) ==
    IF a = 0 THEN b
    ELSE IF b = 0 THEN a
    ELSE (IF (a % 2 = 1) \/ (b % 2 = 1) THEN 1 ELSE 0) + 2 * BitOr(a \div 2, b \div 2)

(***************************************************************************)
(* Constructors                                                            *)
(***************************************************************************)
RPImageLayout(layout, extraUsage) == [layout |-> layout, extraUsage |-> extraUsage]

\* variant: every attachment starts in the undefined layout
AttachmentState_UndefinedLayout(pDesc) ==
    [ firstUseSubpass      |-> VK_SUBPASS_EXTERNAL,
      finalUseSubpass      |-> VK_SUBPASS_EXTERNAL,
      prevReferenceSubpass |-> VK_SUBPASS_EXTERNAL,
      accumulatedRefMask   |-> {},
      loaded               |-> FALSE,
      resolvesInFlight     |-> FALSE,
      prevReferenceLayout  |-> RPImageLayout(VK_IMAGE_LAYOUT_UNDEFINED, {}) ]

AttachmentState(pDesc) ==
    [ firstUseSubpass      |-> VK_SUBPASS_EXTERNAL,
      finalUseSubpass      |-> VK_SUBPASS_EXTERNAL,
      prevReferenceSubpass |-> VK_SUBPASS_EXTERNAL,
      accumulatedRefMask   |-> {},
      loaded               |-> FALSE,
      resolvesInFlight     |-> FALSE,
      prevReferenceLayout  |-> RPImageLayout(pDesc.initialLayout, {}) ]

SyncPointState ==
    [ barrier     |-> [ srcStageMask  |-> 0,
                        dstStageMask  |-> 0,
                        srcAccessMask |-> 0,
                        dstAccessMask |-> 0,
                        flags         |-> {} ],
      transitions |-> <<>> ]

\* memset(&bindTargets, 0, ...): attachment 0, layout VK_IMAGE_LAYOUT_UNDEFINED (0)
ZeroTarget == [attachment |-> 0, layout |-> RPImageLayout(VK_IMAGE_LAYOUT_UNDEFINED, {})]

UnusedTarget ==
    [attachment |-> VK_ATTACHMENT_UNUSED, layout |-> RPImageLayout(VK_IMAGE_LAYOUT_UNDEFINED, {})]

SubpassState ==
    [ syncTop                |-> SyncPointState,
      colorClears            |-> <<>>,
      dsClears               |-> <<>>,
      syncPreResolve         |-> SyncPointState,
      resolves               |-> <<>>,
      syncBottom             |-> SyncPointState,
      hasFirstUseAttachments |-> FALSE,
      hasFinalUseAttachments |-> FALSE,
      hasExternalIncoming    |-> FALSE,
      hasExternalOutgoing    |-> FALSE,
      beginFlags             |-> [hasTopSyncPoint |-> FALSE],
      endFlags               |-> [hasPreResolveSyncPoint |-> FALSE,
                                  hasBottomSyncPoint     |-> FALSE],
      bindTargets            |-> [ colorTargetCount |-> 0,
                                   colorTargets     |-> [t \in 0..(MaxColorTargets - 1) |-> ZeroTarget],
                                   depthStencil     |-> ZeroTarget ] ]

EndState == [syncEnd |-> SyncPointState, flags |-> [hasEndSyncPoint |-> FALSE]]

(***************************************************************************)
(* The builder's working state while one phase runs:                       *)
(*   att, sub, endState  m_pAttachments, m_pSubpasses, m_endState          *)
(*   result              the Pal::Result returned so far                   *)
(*   allocs, failAt      arena allocations made in this phase, and the     *)
(*                       one that fails (0: none)                          *)
(*   log                 history of TrackAttachmentUsage calls             *)
(*   depLog              history of the dependency records examined        *)
(*   waits               history of the WaitForResolves calls              *)
(***************************************************************************)
\* the next arena allocation (m_pArena->Alloc, PushBack) returns null / fails
AllocFails(st) == st.allocs + 1 = st.failAt

\* *pSync for a SyncPointState* that points into a subpass or the end state
Deref(st, pSync) ==
    IF pSync.field = "syncEnd" THEN st.endState.syncEnd
    ELSE st.sub[pSync.subpass][pSync.field]

Store(st, pSync, v) ==
    IF pSync.field = "syncEnd" THEN [st EXCEPT !.endState.syncEnd = v]
    ELSE [st EXCEPT !.sub[pSync.subpass][pSync.field] = v]

SyncTopOf(s) == [field |-> "syncTop", subpass |-> s]

SyncPreResolveOf(s) == [field |-> "syncPreResolve", subpass |-> s]

SyncEnd == [field |-> "syncEnd", subpass |-> VK_SUBPASS_EXTERNAL]

\* pSync->transitions.PushBack(transition)
PushBackTransition(st, pSync, transition) ==
    IF AllocFails(st)
    THEN [st EXCEPT !.allocs = @ + 1, !.result = ErrorOutOfMemory]
    ELSE [Store(st, pSync, [Deref(st, pSync) EXCEPT !.transitions = Append(@, transition)])
            EXCEPT !.allocs = @ + 1, !.result = Success]

\* pSubpass->colorClears / dsClears / resolves .PushBack(x)
PushBackList(st, s, list, x) ==
    IF AllocFails(st)
    THEN [st EXCEPT !.allocs = @ + 1, !.result = ErrorOutOfMemory]
    ELSE [st EXCEPT !.allocs = @ + 1, !.sub[s][list] = Append(@, x), !.result = Success]

\* "if (result == Pal::Result::Success) { result = F(...); }"
WhenSuccess(st, F(_)) == IF st.result = Success THEN F(st) ELSE st

(***************************************************************************)
(* GetSubpassReferenceMask                                                 *)
(***************************************************************************)
GetSubpassReferenceMask(s, attachment) ==
    IF s = VK_SUBPASS_EXTERNAL THEN {}
    ELSE
    LET desc == apiInfo.pSubpasses[s]
        colorIdx == 0..(desc.colorAttachmentCount - 1)
        color ==
            IF desc.colorAttachmentCount > 0 /\ desc.pColorAttachments # nullptr
            THEN UNION { IF desc.pColorAttachments[i].attachment = attachment
                         THEN {AttachRefColor} \cup
                              (IF desc.pResolveAttachments # nullptr
                                  /\ desc.pResolveAttachments[i].attachment # VK_ATTACHMENT_UNUSED
                               THEN {AttachRefResolveSrc} ELSE {})
                         ELSE {} : i \in colorIdx }
            ELSE {}
        ds ==
            IF desc.pDepthStencilAttachment # nullptr
               /\ desc.pDepthStencilAttachment[0].attachment = attachment
            THEN {AttachRefDepthStencil} ELSE {}
        input ==
            IF desc.inputAttachmentCount > 0 /\ desc.pInputAttachments # nullptr
               /\ \E i \in 0..(desc.inputAttachmentCount - 1) :
                      desc.pInputAttachments[i].attachment = attachment
            THEN {AttachRefInput} ELSE {}
        preserve ==
            IF desc.preserveAttachmentCount > 0 /\ desc.pPreserveAttachments # nullptr
               /\ \E i \in 0..(desc.preserveAttachmentCount - 1) :
                      desc.pPreserveAttachments[i] = attachment
            THEN {AttachRefPreserve} ELSE {}
        resolveDst ==
            IF desc.colorAttachmentCount > 0 /\ desc.pResolveAttachments # nullptr
               /\ \E i \in colorIdx : desc.pResolveAttachments[i].attachment = attachment
            THEN {AttachRefResolveDst} ELSE {}
    IN color \cup ds \cup input \cup preserve \cup resolveDst

(***************************************************************************)
(* IsSyncPointActive                                                       *)
(***************************************************************************)
\* variant: the transition list is not consulted
IsSyncPointActive_IgnoresTransitions(syncPoint) ==
    \/ syncPoint.barrier.srcAccessMask # 0
    \/ syncPoint.barrier.dstAccessMask # 0
    \/ syncPoint.barrier.srcStageMask # 0
    \/ syncPoint.barrier.dstStageMask # 0
    \/ syncPoint.barrier.flags # {}

IsSyncPointActive(syncPoint) ==
    \/ syncPoint.barrier.srcAccessMask # 0
    \/ syncPoint.barrier.dstAccessMask # 0
    \/ syncPoint.barrier.srcStageMask # 0
    \/ syncPoint.barrier.dstStageMask # 0
    \/ Len(syncPoint.transitions) > 0
    \/ syncPoint.barrier.flags # {}

(***************************************************************************)
(* WaitForResolves, WaitForResolvesFromSubpass                             *)
(***************************************************************************)
AnyResolvesInFlight(st) == \E a \in DOMAIN st.att : st.att[a].resolvesInFlight

\* the history entry of one call: the sync point given, and the resolves in
\* flight and the sync point's flags before and after the call
LogWait(before, after, pSync) ==
    [after EXCEPT !.waits = Append(@,
        [ pSync          |-> pSync,
          inFlightBefore |-> {a \in DOMAIN before.att : before.att[a].resolvesInFlight},
          flagsBefore    |-> Deref(before, pSync).barrier.flags,
          inFlightAfter  |-> {a \in DOMAIN after.att : after.att[a].resolvesInFlight},
          flagsAfter     |-> Deref(after, pSync).barrier.flags ])]

\* variant: the post-resolve flag is set but resolvesInFlight is left alone
WaitForResolves_KeepsInFlight(st, pSync) ==
    LogWait(st,
            IF AnyResolvesInFlight(st)
            THEN Store(st, pSync,
                       [Deref(st, pSync) EXCEPT !.barrier.flags = @ \cup {"postResolveSync"}])
            ELSE st,
            pSync)

\* variant: the post-resolve flag is set whether or not a resolve is in flight
WaitForResolves_AlwaysFlags(st, pSync) ==
    LogWait(st,
            [ Store(st, pSync,
                    [Deref(st, pSync) EXCEPT !.barrier.flags = @ \cup {"postResolveSync"}])
              EXCEPT !.att = [a \in DOMAIN st.att |->
                                 [st.att[a] EXCEPT !.resolvesInFlight = FALSE]] ],
            pSync)

WaitForResolves(st, pSync) ==
    LogWait(st,
            [ (IF AnyResolvesInFlight(st)
               THEN Store(st, pSync,
                          [Deref(st, pSync) EXCEPT !.barrier.flags = @ \cup {"postResolveSync"}])
               ELSE st)
              EXCEPT !.att = [a \in DOMAIN st.att |->
                                 [st.att[a] EXCEPT !.resolvesInFlight = FALSE]] ],
            pSync)

\* variant: any resolve in flight counts, whichever subpass referenced it last
ResolvesInFlightFrom_AnySubpass(st, s) ==
    \E a \in DOMAIN st.att : st.att[a].resolvesInFlight

\* the condition of the loop in WaitForResolvesFromSubpass
ResolvesInFlightFrom(st, s) ==
    \E a \in DOMAIN st.att :
        st.att[a].resolvesInFlight /\ st.att[a].prevReferenceSubpass = s

\* variant: only the resolves of the given subpass are taken out of flight
WaitForResolvesFromSubpass_OnlyThatSubpass(st, s, pSync) ==
    IF ResolvesInFlightFrom(st, s)
    THEN LogWait(st,
                 [ Store(st, pSync,
                         [Deref(st, pSync) EXCEPT !.barrier.flags = @ \cup {"postResolveSync"}])
                   EXCEPT !.att = [a \in DOMAIN st.att |->
                                      IF st.att[a].prevReferenceSubpass = s
                                      THEN [st.att[a] EXCEPT !.resolvesInFlight = FALSE]
                                      ELSE st.att[a]] ],
                 pSync)
    ELSE st

WaitForResolvesFromSubpass(st, s, pSync) ==
    IF ResolvesInFlightFrom(st, s) THEN WaitForResolves(st, pSync) ELSE st

(***************************************************************************)
(* BuildLoadOps                                                            *)
(***************************************************************************)
\* the clear aspects requested by the attachment's format and load ops
ClearAspect(pDesc) ==
    IF IsColorFormat(pDesc.format)
    THEN (IF pDesc.loadOp = VK_ATTACHMENT_LOAD_OP_CLEAR
          THEN {VK_IMAGE_ASPECT_COLOR_BIT} ELSE {})
    ELSE (IF HasDepth(pDesc.format) /\ pDesc.loadOp = VK_ATTACHMENT_LOAD_OP_CLEAR
          THEN {VK_IMAGE_ASPECT_DEPTH_BIT} ELSE {})
         \cup
         (IF HasStencil(pDesc.format) /\ pDesc.stencilLoadOp = VK_ATTACHMENT_LOAD_OP_CLEAR
          THEN {VK_IMAGE_ASPECT_STENCIL_BIT} ELSE {})

\* "Load-op clear only if requested and the first reference isn't a resolve
\* attachment"
\* variant: the reference mask is not consulted
NeedsLoadOpClear_AnyReference(refMask, clearAspect) ==
    clearAspect # {}

NeedsLoadOpClear(refMask, clearAspect) ==
    (refMask # {AttachRefResolveDst}) /\ (clearAspect # {})

\* RPLoadOpClearInfo for the attachment, in its current tracked layout
\* variant: the clear is given the attachment's initial layout
ClearInfo_InitialLayout(st, attachment) ==
    [ attachment |-> attachment,
      layout     |-> RPImageLayout(apiInfo.pAttachments[attachment].initialLayout, {}),
      aspect     |-> ClearAspect(apiInfo.pAttachments[attachment]) ]

ClearInfo(st, attachment) ==
    [ attachment |-> attachment,
      layout     |-> st.att[attachment].prevReferenceLayout,
      aspect     |-> ClearAspect(apiInfo.pAttachments[attachment]) ]

BuildLoadOps(st, s, attachment) ==
    IF NeedsLoadOpClear(GetSubpassReferenceMask(s, attachment),
                        ClearAspect(apiInfo.pAttachments[attachment]))
    THEN PushBackList([st EXCEPT !.att[attachment].loaded = TRUE], s,
                      IF IsColorFormat(apiInfo.pAttachments[attachment].format)
                      THEN "colorClears" ELSE "dsClears",
                      ClearInfo(st, attachment))
    ELSE [st EXCEPT !.att[attachment].loaded = TRUE]

(***************************************************************************)
(* TrackAttachmentUsage                                                    *)
(***************************************************************************)
\* the courtesy check: a resolve in flight and a usage from another subpass
CourtesyWaitNeeded(pAttachment, s) ==
    pAttachment.resolvesInFlight /\ (s # pAttachment.prevReferenceSubpass)

\* variant: the end state is not told apart from a subpass
IsInitialLayoutTransition_AnySubpass(pAttachment, s) ==
    pAttachment.firstUseSubpass = s

IsInitialLayoutTransition(pAttachment, s) ==
    (s # VK_SUBPASS_EXTERNAL) /\ (pAttachment.firstUseSubpass = s)

\* the guard of the call of BuildLoadOps
\* variant: the loaded flag is not consulted
LoadOpsDue_IgnoresLoaded(pAttachment, s) ==
    (s # VK_SUBPASS_EXTERNAL) /\ (pAttachment.firstUseSubpass = s)

LoadOpsDue(pAttachment, s) ==
    (s # VK_SUBPASS_EXTERNAL) /\ (pAttachment.firstUseSubpass = s)
        /\ (pAttachment.loaded = FALSE)

\* history of the call: its arguments, the tracked layout on entry, whether
\* the courtesy wait is taken, and the attachments with a resolve in flight
\* when the layout transition is recorded (after the courtesy wait)
LogUsage(st, s, refType, attachment, layout, pSync) ==
    [st EXCEPT !.log = Append(@,
        [ subpass    |-> s,
          refType    |-> refType,
          attachment |-> attachment,
          pSync      |-> pSync,
          layout     |-> layout,
          prevLayout |-> st.att[attachment].prevReferenceLayout,
          courtesy   |-> CourtesyWaitNeeded(st.att[attachment], s),
          inFlight   |-> IF CourtesyWaitNeeded(st.att[attachment], s) THEN {}
                         ELSE {a \in DOMAIN st.att : st.att[a].resolvesInFlight} ])]

\* "This is a courtesy check, in case an application misses a dependency".
\* VK_NEVER_CALLED() on this path is a debug assertion that compiles to nothing
\* in a release build; the call is recorded in trackLog (courtesy)
CourtesyWait(st, s, attachment, pSync) ==
    IF CourtesyWaitNeeded(st.att[attachment], s) THEN WaitForResolves(st, pSync) ELSE st

\* "Detect if an automatic layout transition is needed and insert one"
\* variant: the tracked layout is not updated after the transition
RecordTransition_KeepsTrackedLayout(st, s, attachment, layout, pSync) ==
    IF st.att[attachment].prevReferenceLayout # layout
    THEN PushBackTransition(st, pSync,
             [ attachment |-> attachment,
               prevLayout |-> st.att[attachment].prevReferenceLayout,
               nextLayout |-> layout,
               flags      |-> [isInitialLayoutTransition |->
                                   IsInitialLayoutTransition(st.att[attachment], s)] ])
    ELSE st

RecordTransition(st, s, attachment, layout, pSync) ==
    IF st.att[attachment].prevReferenceLayout # layout
    THEN [ PushBackTransition(st, pSync,
               [ attachment |-> attachment,
                 prevLayout |-> st.att[attachment].prevReferenceLayout,
                 nextLayout |-> layout,
                 flags      |-> [isInitialLayoutTransition |->
                                     IsInitialLayoutTransition(st.att[attachment], s)] ])
           EXCEPT !.att[attachment].prevReferenceLayout = layout ]
    ELSE st

\* "Track how this attachment was last used"
TrackReference(st, s, refType, attachment) ==
    [st EXCEPT !.att[attachment].prevReferenceSubpass = s,
               !.att[attachment].accumulatedRefMask = @ \cup {refType}]

\* "Handle load ops for this attachment if this is the first time it is being
\* used and it has not already been loaded"
HandleLoadOps(st, s, attachment) ==
    IF LoadOpsDue(st.att[attachment], s) /\ (st.result = Success)
    THEN BuildLoadOps(st, s, attachment)
    ELSE st

\* variant: load ops are scheduled before the layout transition is recorded
TrackAttachmentUsage_LoadOpsFirst(st, s, refType, attachment, layout, pSync) ==
    TrackReference(RecordTransition(
        HandleLoadOps(
            CourtesyWait(LogUsage(st, s, refType, attachment, layout, pSync), s, attachment, pSync),
            s, attachment),
        s, attachment, layout, pSync), s, refType, attachment)

TrackAttachmentUsage(st, s, refType, attachment, layout, pSync) ==
    HandleLoadOps(
        TrackReference(
            RecordTransition(
                CourtesyWait(LogUsage(st, s, refType, attachment, layout, pSync),
                             s, attachment, pSync),
                s, attachment, layout, pSync),
            s, refType, attachment),
        s, attachment)

(***************************************************************************)
(* BuildColorAttachmentReferences                                          *)
(***************************************************************************)
\* the bind target of a color slot (slots past the array are not stored)
BindColorTarget(st, s, target, reference) ==
    IF target < MaxColorTargets
    THEN [st EXCEPT !.sub[s].bindTargets.colorTargets[target] =
             [ attachment |-> reference.attachment,
               layout     |-> RPImageLayout(reference.layout, {}) ]]
    ELSE st

RECURSIVE ColorReferenceLoop(_, _, _, _)
ColorReferenceLoop(st, s, desc, target) ==
    IF (target < desc.colorAttachmentCount) /\ (st.result = Success)
    THEN ColorReferenceLoop(
             IF desc.pColorAttachments[target].attachment # VK_ATTACHMENT_UNUSED
             THEN TrackAttachmentUsage(
                      BindColorTarget(st, s, target, desc.pColorAttachments[target]),
                      s, AttachRefColor, desc.pColorAttachments[target].attachment,
                      RPImageLayout(desc.pColorAttachments[target].layout, {}), SyncTopOf(s))
             ELSE BindColorTarget(st, s, target, desc.pColorAttachments[target]),
             s, desc, target + 1)
    ELSE st

BuildColorAttachmentReferences(st, s, desc) ==
    IF desc.pColorAttachments # nullptr
    THEN ColorReferenceLoop(
             [st EXCEPT !.sub[s].bindTargets.colorTargetCount = desc.colorAttachmentCount,
                        !.sub[s].bindTargets.colorTargets =
                            [t \in 0..(MaxColorTargets - 1) |-> UnusedTarget]],
             s, desc, 0)
    ELSE [st EXCEPT !.sub[s].bindTargets.colorTargetCount = 0,
                    !.sub[s].bindTargets.colorTargets =
                        [t \in 0..(MaxColorTargets - 1) |-> UnusedTarget]]

(***************************************************************************)
(* BuildDepthStencilAttachmentReferences                                   *)
(***************************************************************************)
BuildDepthStencilAttachmentReferences(st, s, desc) ==
    IF desc.pDepthStencilAttachment # nullptr
       /\ desc.pDepthStencilAttachment[0].attachment # VK_ATTACHMENT_UNUSED
    THEN [ TrackAttachmentUsage(st, s, AttachRefDepthStencil,
                                desc.pDepthStencilAttachment[0].attachment,
                                RPImageLayout(desc.pDepthStencilAttachment[0].layout, {}),
                                SyncTopOf(s))
           EXCEPT !.sub[s].bindTargets.depthStencil =
               [ attachment |-> desc.pDepthStencilAttachment[0].attachment,
                 layout     |-> RPImageLayout(desc.pDepthStencilAttachment[0].layout, {}) ] ]
    ELSE [st EXCEPT !.sub[s].bindTargets.depthStencil = UnusedTarget]

(***************************************************************************)
(* BuildInputAttachmentReferences                                          *)
(***************************************************************************)
RECURSIVE InputReferenceLoop(_, _, _, _)
InputReferenceLoop(st, s, desc, target) ==
    IF (target < desc.inputAttachmentCount) /\ (st.result = Success)
    THEN InputReferenceLoop(
             IF desc.pInputAttachments[target].attachment # VK_ATTACHMENT_UNUSED
             THEN TrackAttachmentUsage(st, s, AttachRefInput,
                      desc.pInputAttachments[target].attachment,
                      RPImageLayout(desc.pInputAttachments[target].layout, {}), SyncTopOf(s))
             ELSE st,
             s, desc, target + 1)
    ELSE st

BuildInputAttachmentReferences(st, s, desc) ==
    IF desc.pInputAttachments # nullptr THEN InputReferenceLoop(st, s, desc, 0) ELSE st

(***************************************************************************)
(* BuildResolveAttachmentReferences                                        *)
(***************************************************************************)
\* RPResolveInfo: both attachments in their current tracked layouts
ResolveInfo(st, src, dst) ==
    [ src |-> [ attachment |-> src.attachment,
                layout     |-> st.att[src.attachment].prevReferenceLayout ],
      dst |-> [ attachment |-> dst.attachment,
                layout     |-> st.att[dst.attachment].prevReferenceLayout ] ]

\* variant: only the destination is marked as having a resolve in flight
MarkResolve_OnlyDestination(st, s, src, dst) ==
    [st EXCEPT !.sub[s].syncPreResolve.barrier.flags = @ \cup {"preColorResolveSync"},
               !.att = [a \in DOMAIN st.att |->
                           IF a = dst.attachment
                           THEN [st.att[a] EXCEPT !.resolvesInFlight = TRUE]
                           ELSE st.att[a]]]

\* after resolves.PushBack: the pre-resolve flag and the two in-flight marks
MarkResolve(st, s, src, dst) ==
    [st EXCEPT !.sub[s].syncPreResolve.barrier.flags = @ \cup {"preColorResolveSync"},
               !.att = [a \in DOMAIN st.att |->
                           IF a \in {src.attachment, dst.attachment}
                           THEN [st.att[a] EXCEPT !.resolvesInFlight = TRUE]
                           ELSE st.att[a]]]

ScheduleResolve(st, s, src, dst) ==
    MarkResolve(PushBackList(st, s, "resolves", ResolveInfo(st, src, dst)), s, src, dst)

\* variant: the record's layouts are captured before the two tracking calls
ResolvePair_CapturesBefore(st, s, src, dst) ==
    WhenSuccess(
        WhenSuccess(
            TrackAttachmentUsage(st, s, AttachRefResolveSrc, src.attachment,
                                 RPImageLayout(src.layout, LayoutResolveSrc),
                                 SyncPreResolveOf(s)),
            LAMBDA t : TrackAttachmentUsage(t, s, AttachRefResolveDst, dst.attachment,
                                            RPImageLayout(dst.layout, LayoutResolveDst),
                                            SyncPreResolveOf(s))),
        LAMBDA t : MarkResolve(PushBackList(t, s, "resolves", ResolveInfo(st, src, dst)),
                               s, src, dst))

\* the body of the loop for one pair with both attachments used
ResolvePair(st, s, src, dst) ==
    WhenSuccess(
        WhenSuccess(
            TrackAttachmentUsage(st, s, AttachRefResolveSrc, src.attachment,
                                 RPImageLayout(src.layout, LayoutResolveSrc),
                                 SyncPreResolveOf(s)),
            LAMBDA t : TrackAttachmentUsage(t, s, AttachRefResolveDst, dst.attachment,
                                            RPImageLayout(dst.layout, LayoutResolveDst),
                                            SyncPreResolveOf(s))),
        LAMBDA t : ScheduleResolve(t, s, src, dst))

RECURSIVE ResolveReferenceLoop(_, _, _, _)
ResolveReferenceLoop(st, s, desc, target) ==
    IF (target < desc.colorAttachmentCount) /\ (st.result = Success)
    THEN ResolveReferenceLoop(
             IF (desc.pResolveAttachments[target].attachment # VK_ATTACHMENT_UNUSED)
                /\ (desc.pColorAttachments[target].attachment # VK_ATTACHMENT_UNUSED)
             THEN ResolvePair(st, s, desc.pColorAttachments[target],
                              desc.pResolveAttachments[target])
             ELSE st,
             s, desc, target + 1)
    ELSE st

BuildResolveAttachmentReferences(st, s) ==
    IF apiInfo.pSubpasses[s].pResolveAttachments # nullptr
    THEN ResolveReferenceLoop(st, s, apiInfo.pSubpasses[s], 0)
    ELSE st

(***************************************************************************)
(* BuildSubpassDependencies, BuildImplicitDependencies                     *)
(***************************************************************************)
\* variant: a dependency's masks replace the barrier's masks
OrBarrierMasks_Assigns(sync, dep) ==
    [sync EXCEPT !.barrier.srcStageMask  = dep.srcStageMask,
                 !.barrier.dstStageMask  = dep.dstStageMask,
                 !.barrier.srcAccessMask = dep.srcAccessMask,
                 !.barrier.dstAccessMask = dep.dstAccessMask]

\* barrier masks |= the dependency's masks
OrBarrierMasks(sync, dep) ==
    [sync EXCEPT !.barrier.srcStageMask  = BitOr(@, dep.srcStageMask),
                 !.barrier.dstStageMask  = BitOr(@, dep.dstStageMask),
                 !.barrier.srcAccessMask = BitOr(@, dep.srcAccessMask),
                 !.barrier.dstAccessMask = BitOr(@, dep.dstAccessMask)]

\* variant: a dependency never waits for the resolves of its source subpass
ApplyDependency_NeverWaits(st, dep, pSync) ==
    Store(st, pSync, OrBarrierMasks(Deref(st, pSync), dep))

\* the body of the loop for one dependency that terminates at dstSubpass
ApplyDependency(st, dep, pSync) ==
    IF dep.srcSubpass # VK_SUBPASS_EXTERNAL
    THEN WaitForResolvesFromSubpass(
             Store(st, pSync, OrBarrierMasks(Deref(st, pSync), dep)), dep.srcSubpass, pSync)
    ELSE Store(st, pSync, OrBarrierMasks(Deref(st, pSync), dep))

\* the history entry of one iteration of the loop: record d examined for
\* dstSubpass, with the resolves in flight and the sync point's flags before
\* and after the iteration
LogDependency(before, after, dstSubpass, pSync, d) ==
    [after EXCEPT !.depLog = Append(@,
        [ dstSubpass     |-> dstSubpass,
          dependency     |-> d,
          pSync          |-> pSync,
          inFlightBefore |-> {a \in DOMAIN before.att : before.att[a].resolvesInFlight},
          lastSubpass    |-> [a \in DOMAIN before.att |-> before.att[a].prevReferenceSubpass],
          flagsBefore    |-> Deref(before, pSync).barrier.flags,
          inFlightAfter  |-> {a \in DOMAIN after.att : after.att[a].resolvesInFlight},
          flagsAfter     |-> Deref(after, pSync).barrier.flags ])]

\* one iteration of the loop
DependencyStep(st, dstSubpass, pSync, d) ==
    LogDependency(st,
                  IF apiInfo.pDependencies[d].dstSubpass = dstSubpass
                  THEN ApplyDependency(st, apiInfo.pDependencies[d], pSync)
                  ELSE st,
                  dstSubpass, pSync, d)

RECURSIVE DependencyLoop(_, _, _, _)
DependencyLoop(st, dstSubpass, pSync, d) ==
    IF (d < apiInfo.dependencyCount) /\ (st.result = Success)
    THEN DependencyLoop(DependencyStep(st, dstSubpass, pSync, d), dstSubpass, pSync, d + 1)
    ELSE st

BuildSubpassDependencies(st, dstSubpass, pSync) ==
    DependencyLoop(st, dstSubpass, pSync, 0)

\* the flag BuildImplicitDependencies sets for dstSubpass, if any
\* variant: final-use attachments never ask for the outgoing flag
ImplicitFlags_NoOutgoing(st, dstSubpass) ==
    IF dstSubpass # VK_SUBPASS_EXTERNAL
    THEN IF st.sub[dstSubpass].hasFirstUseAttachments
            /\ (st.sub[dstSubpass].hasExternalIncoming = FALSE)
         THEN {"implicitExternalIncoming"} ELSE {}
    ELSE {}

\* variant: the incoming flag does not depend on first-use attachments
ImplicitFlags_AnySubpassIncoming(st, dstSubpass) ==
    IF dstSubpass # VK_SUBPASS_EXTERNAL
    THEN IF st.sub[dstSubpass].hasExternalIncoming = FALSE
         THEN {"implicitExternalIncoming"} ELSE {}
    ELSE IF \E srcSubpass \in DOMAIN st.sub :
                (st.sub[srcSubpass].hasExternalOutgoing = FALSE)
                /\ st.sub[srcSubpass].hasFinalUseAttachments
         THEN {"implicitExternalOutgoing"} ELSE {}

ImplicitFlags(st, dstSubpass) ==
    IF dstSubpass # VK_SUBPASS_EXTERNAL
    THEN IF st.sub[dstSubpass].hasFirstUseAttachments
            /\ (st.sub[dstSubpass].hasExternalIncoming = FALSE)
         THEN {"implicitExternalIncoming"} ELSE {}
    ELSE IF \E srcSubpass \in DOMAIN st.sub :
                (st.sub[srcSubpass].hasExternalOutgoing = FALSE)
                /\ st.sub[srcSubpass].hasFinalUseAttachments
         THEN {"implicitExternalOutgoing"} ELSE {}

BuildImplicitDependencies(st, dstSubpass, pSync) ==
    Store(st, pSync,
          [Deref(st, pSync) EXCEPT !.barrier.flags = @ \cup ImplicitFlags(st, dstSubpass)])

(***************************************************************************)
(* BuildSubpass                                                            *)
(***************************************************************************)
\* "Pre-calculate a master flag for whether this subpass's sync points are
\* active based on what was added to them"
CacheSubpassFlags(st, s) ==
    [st EXCEPT
        !.sub[s].beginFlags.hasTopSyncPoint      = IsSyncPointActive(st.sub[s].syncTop),
        !.sub[s].endFlags.hasPreResolveSyncPoint = IsSyncPointActive(st.sub[s].syncPreResolve),
        !.sub[s].endFlags.hasBottomSyncPoint     = IsSyncPointActive(st.sub[s].syncBottom)]

\* variant: input references are processed before color references
BuildSubpass_InputFirst(st, s) ==
    CacheSubpassFlags(
        WhenSuccess(
        WhenSuccess(
        WhenSuccess(
        WhenSuccess(
        WhenSuccess(
            BuildSubpassDependencies(st, s, SyncTopOf(s)),
            LAMBDA t : BuildImplicitDependencies(t, s, SyncTopOf(s))),
            LAMBDA t : BuildInputAttachmentReferences(t, s, apiInfo.pSubpasses[s])),
            LAMBDA t : BuildColorAttachmentReferences(t, s, apiInfo.pSubpasses[s])),
            LAMBDA t : BuildDepthStencilAttachmentReferences(t, s, apiInfo.pSubpasses[s])),
            LAMBDA t : BuildResolveAttachmentReferences(t, s)),
        s)

BuildSubpass(st, s) ==
    CacheSubpassFlags(
        WhenSuccess(
        WhenSuccess(
        WhenSuccess(
        WhenSuccess(
        WhenSuccess(
            BuildSubpassDependencies(st, s, SyncTopOf(s)),
            LAMBDA t : BuildImplicitDependencies(t, s, SyncTopOf(s))),
            LAMBDA t : BuildColorAttachmentReferences(t, s, apiInfo.pSubpasses[s])),
            LAMBDA t : BuildDepthStencilAttachmentReferences(t, s, apiInfo.pSubpasses[s])),
            LAMBDA t : BuildInputAttachmentReferences(t, s, apiInfo.pSubpasses[s])),
            LAMBDA t : BuildResolveAttachmentReferences(t, s)),
        s)

(***************************************************************************)
(* BuildEndState                                                           *)
(***************************************************************************)
\* "Execute final layout changes"
\* variant: attachments no subpass references are not tracked at the end
TrackFinalLayout_OnlyReferenced(st, a) ==
    IF st.att[a].firstUseSubpass # VK_SUBPASS_EXTERNAL
    THEN TrackAttachmentUsage(st, VK_SUBPASS_EXTERNAL, AttachRefExternalPostInstance, a,
                              RPImageLayout(apiInfo.pAttachments[a].finalLayout, {}),
                              SyncEnd)
    ELSE st

\* the body of the loop "Execute final layout changes"
TrackFinalLayout(st, a) ==
    TrackAttachmentUsage(st, VK_SUBPASS_EXTERNAL, AttachRefExternalPostInstance, a,
                         RPImageLayout(apiInfo.pAttachments[a].finalLayout, {}),
                         SyncEnd)

RECURSIVE FinalLayoutLoop(_, _)
FinalLayoutLoop(st, a) ==
    IF (a < apiInfo.attachmentCount) /\ (st.result = Success)
    THEN FinalLayoutLoop(TrackFinalLayout(st, a), a + 1)
    ELSE st

\* "Figure out if we need to care about the end-instance state"
CacheEndFlag(st) ==
    [st EXCEPT !.endState.flags.hasEndSyncPoint = IsSyncPointActive(st.endState.syncEnd)]

\* variant: the end flag is cached before the final layout changes
BuildEndState_FlagBeforeLayouts(st) ==
    FinalLayoutLoop(
        CacheEndFlag(
            WaitForResolves(
                WhenSuccess(BuildSubpassDependencies(st, VK_SUBPASS_EXTERNAL, SyncEnd),
                            LAMBDA t : BuildImplicitDependencies(t, VK_SUBPASS_EXTERNAL, SyncEnd)),
                SyncEnd)),
        0)

BuildEndState(st) ==
    CacheEndFlag(
        FinalLayoutLoop(
            WaitForResolves(
                WhenSuccess(BuildSubpassDependencies(st, VK_SUBPASS_EXTERNAL, SyncEnd),
                            LAMBDA t : BuildImplicitDependencies(t, VK_SUBPASS_EXTERNAL, SyncEnd)),
                SyncEnd),
            0))

(***************************************************************************)
(* BuildInitialState                                                       *)
(***************************************************************************)
\* "Initialize attachment state"
InitializeAttachments(st) ==
    IF apiInfo.attachmentCount > 0
    THEN IF AllocFails(st)
         THEN [st EXCEPT !.allocs = @ + 1, !.result = ErrorOutOfMemory]
         ELSE [st EXCEPT !.allocs = @ + 1,
                         !.att = [i \in 0..(apiInfo.attachmentCount - 1) |->
                                     AttachmentState(apiInfo.pAttachments[i])]]
    ELSE st

\* "Initialize subpass state"
InitializeSubpasses(st) ==
    IF (apiInfo.subpassCount > 0) /\ (st.result = Success)
    THEN IF AllocFails(st)
         THEN [st EXCEPT !.allocs = @ + 1, !.result = ErrorOutOfMemory]
         ELSE [st EXCEPT !.allocs = @ + 1,
                         !.sub = [i \in 0..(apiInfo.subpassCount - 1) |-> SubpassState]]
    ELSE st

\* one step of the scan: attachment is referenced by subpass s
\* variant: the final use is written only together with the first use
NoteReference_FinalUseWrittenOnce(st, s, attachment) ==
    IF st.att[attachment].firstUseSubpass = VK_SUBPASS_EXTERNAL
    THEN [st EXCEPT !.att[attachment].firstUseSubpass = s,
                    !.att[attachment].finalUseSubpass = s,
                    !.sub[s].hasFirstUseAttachments = TRUE]
    ELSE st

NoteReference(st, s, attachment) ==
    IF st.att[attachment].firstUseSubpass = VK_SUBPASS_EXTERNAL
    THEN [st EXCEPT !.att[attachment].firstUseSubpass = s,
                    !.att[attachment].finalUseSubpass = s,
                    !.sub[s].hasFirstUseAttachments = TRUE]
    ELSE [st EXCEPT !.att[attachment].finalUseSubpass = s]

\* "Find first and last subpass indices that reference each attachment"
RECURSIVE FindFirstAndLastUse(_, _, _)
FindFirstAndLastUse(st, s, attachment) ==
    IF s >= apiInfo.subpassCount THEN st
    ELSE IF attachment >= apiInfo.attachmentCount THEN FindFirstAndLastUse(st, s + 1, 0)
    ELSE FindFirstAndLastUse(
             IF GetSubpassReferenceMask(s, attachment) # {}
             THEN NoteReference(st, s, attachment)
             ELSE st,
             s, attachment + 1)

\* "Flag which subpasses contain final-use attachment references"
FlagFinalUse(st) ==
    [st EXCEPT !.sub = [s \in DOMAIN st.sub |->
        IF \E a \in DOMAIN st.att : st.att[a].finalUseSubpass = s
        THEN [st.sub[s] EXCEPT !.hasFinalUseAttachments = TRUE]
        ELSE st.sub[s]]]

\* variant: a dependency from any source counts as an external incoming one
FlagExternalDependencies_AnySourceIncoming(st) ==
    [st EXCEPT !.sub = [s \in DOMAIN st.sub |->
        [st.sub[s] EXCEPT
            !.hasExternalIncoming = @ \/
                \E d \in 0..(apiInfo.dependencyCount - 1) :
                    /\ apiInfo.pDependencies[d].dstSubpass # VK_SUBPASS_EXTERNAL
                    /\ apiInfo.pDependencies[d].dstSubpass = s,
            !.hasExternalOutgoing = @ \/
                \E d \in 0..(apiInfo.dependencyCount - 1) :
                    /\ apiInfo.pDependencies[d].dstSubpass = VK_SUBPASS_EXTERNAL
                    /\ apiInfo.pDependencies[d].srcSubpass # VK_SUBPASS_EXTERNAL
                    /\ apiInfo.pDependencies[d].srcSubpass = s]]]

\* variant: a dependency to any destination counts as an external outgoing one
FlagExternalDependencies_AnyDestinationOutgoing(st) ==
    [st EXCEPT !.sub = [s \in DOMAIN st.sub |->
        [st.sub[s] EXCEPT
            !.hasExternalIncoming = @ \/
                \E d \in 0..(apiInfo.dependencyCount - 1) :
                    /\ apiInfo.pDependencies[d].srcSubpass = VK_SUBPASS_EXTERNAL
                    /\ apiInfo.pDependencies[d].dstSubpass # VK_SUBPASS_EXTERNAL
                    /\ apiInfo.pDependencies[d].dstSubpass = s,
            !.hasExternalOutgoing = @ \/
                \E d \in 0..(apiInfo.dependencyCount - 1) :
                    /\ apiInfo.pDependencies[d].srcSubpass # VK_SUBPASS_EXTERNAL
                    /\ apiInfo.pDependencies[d].srcSubpass = s]]]

\* "Sort which subpasses have incoming/outgoing application-provided
\* VkSubpassDependencies"
FlagExternalDependencies(st) ==
    [st EXCEPT !.sub = [s \in DOMAIN st.sub |->
        [st.sub[s] EXCEPT
            !.hasExternalIncoming = @ \/
                \E d \in 0..(apiInfo.dependencyCount - 1) :
                    /\ apiInfo.pDependencies[d].srcSubpass = VK_SUBPASS_EXTERNAL
                    /\ apiInfo.pDependencies[d].dstSubpass # VK_SUBPASS_EXTERNAL
                    /\ apiInfo.pDependencies[d].dstSubpass = s,
            !.hasExternalOutgoing = @ \/
                \E d \in 0..(apiInfo.dependencyCount - 1) :
                    /\ apiInfo.pDependencies[d].dstSubpass = VK_SUBPASS_EXTERNAL
                    /\ apiInfo.pDependencies[d].srcSubpass # VK_SUBPASS_EXTERNAL
                    /\ apiInfo.pDependencies[d].srcSubpass = s]]]

BuildInitialState(st) ==
    WhenSuccess(InitializeSubpasses(InitializeAttachments(st)),
                LAMBDA t : FlagExternalDependencies(FlagFinalUse(FindFirstAndLastUse(t, 0, 0))))

(***************************************************************************)
(* Finalize: SyncPointState::Finalize, SubpassState::Finalize,             *)
(* EndState::Finalize and RenderPassBuilder::Finalize                      *)
(***************************************************************************)
SyncPointFinalize(sync) ==
    [ barrier         |-> sync.barrier,
      transitionCount |-> Len(sync.transitions),
      pTransitions    |-> sync.transitions ]

SubpassFinalize(sp) ==
    [ begin |-> [ flags       |-> sp.beginFlags,
                  syncTop     |-> SyncPointFinalize(sp.syncTop),
                  loadOps     |-> [ colorClearCount |-> Len(sp.colorClears),
                                    pColorClears    |-> sp.colorClears,
                                    dsClearCount    |-> Len(sp.dsClears),
                                    pDsClears       |-> sp.dsClears ],
                  bindTargets |-> sp.bindTargets ],
      end   |-> [ flags          |-> sp.endFlags,
                  syncPreResolve |-> SyncPointFinalize(sp.syncPreResolve),
                  resolveCount   |-> Len(sp.resolves),
                  pResolves      |-> sp.resolves,
                  syncBottom     |-> SyncPointFinalize(sp.syncBottom) ] ]

EndStateFinalize(es) ==
    [flags |-> es.flags, syncEnd |-> SyncPointFinalize(es.syncEnd)]

\* the RenderPassExecuteInfo written into the block
ExecuteInfo(sub, endState) ==
    [ pSubpasses |-> [s \in DOMAIN sub |-> SubpassFinalize(sub[s])],
      end        |-> EndStateFinalize(endState) ]

(***************************************************************************)
(* Finalize: the size pass and the cursor of the write pass.  A void* into *)
(* the block is its byte offset from pStorageStart.                        *)
(***************************************************************************)
\* sizeof(RenderPassExecuteInfo)
SizeofRenderPassExecuteInfo == 64

\* sizeof(RPExecuteSubpassInfo)
SizeofRPExecuteSubpassInfo == 256

\* sizeof(RPTransitionInfo)
SizeofRPTransitionInfo == 24

\* sizeof(RPLoadOpClearInfo)
SizeofRPLoadOpClearInfo == 16

\* sizeof(RPResolveInfo)
SizeofRPResolveInfo == 24

SyncPointGetExtraSize(sync) == Len(sync.transitions) * SizeofRPTransitionInfo

\* variant: the depth/stencil clears are left out of the size
SubpassGetExtraSize_OmitsDsClears(sp) ==
    SyncPointGetExtraSize(sp.syncTop)
        + Len(sp.colorClears) * SizeofRPLoadOpClearInfo
        + SyncPointGetExtraSize(sp.syncPreResolve)
        + Len(sp.resolves) * SizeofRPResolveInfo
        + SyncPointGetExtraSize(sp.syncBottom)

SubpassGetExtraSize(sp) ==
    SyncPointGetExtraSize(sp.syncTop)
        + Len(sp.colorClears) * SizeofRPLoadOpClearInfo
        + Len(sp.dsClears) * SizeofRPLoadOpClearInfo
        + SyncPointGetExtraSize(sp.syncPreResolve)
        + Len(sp.resolves) * SizeofRPResolveInfo
        + SyncPointGetExtraSize(sp.syncBottom)

EndStateGetExtraSize(es) == SyncPointGetExtraSize(es.syncEnd)

\* "for (s = 0; s < m_subpassCount; ++s) finalSize += m_pSubpasses[s].GetExtraSize()"
RECURSIVE ExtraSizeLoop(_, _, _)
ExtraSizeLoop(finalSize, sub, s) ==
    IF s < apiInfo.subpassCount
    THEN ExtraSizeLoop(finalSize + SubpassGetExtraSize(sub[s]), sub, s + 1)
    ELSE finalSize

GetTotalExtraSize(sub, endState) ==
    ExtraSizeLoop(apiInfo.subpassCount * SizeofRPExecuteSubpassInfo, sub, 0)
        + EndStateGetExtraSize(endState)

\* the pStorage that AssignArray returns for n elements of size sizeofT
AssignArray(n, pStorage, sizeofT) ==
    IF n > 0 THEN pStorage + sizeofT * n ELSE pStorage

\* the pStorage that SyncPointState::Finalize returns
SyncPointFinalizeStorage(pStorage, sync) ==
    AssignArray(Len(sync.transitions), pStorage, SizeofRPTransitionInfo)

\* the pStorage that SubpassState::Finalize returns
SubpassFinalizeStorage(pStorage, sp) ==
    SyncPointFinalizeStorage(
        AssignArray(Len(sp.resolves),
            SyncPointFinalizeStorage(
                AssignArray(Len(sp.dsClears),
                    AssignArray(Len(sp.colorClears),
                        SyncPointFinalizeStorage(pStorage, sp.syncTop),
                        SizeofRPLoadOpClearInfo),
                    SizeofRPLoadOpClearInfo),
                sp.syncPreResolve),
            SizeofRPResolveInfo),
        sp.syncBottom)

\* "for (s = 0; s < m_subpassCount; ++s) pStorage = m_pSubpasses[s].Finalize(...)"
RECURSIVE SubpassFinalizeLoop(_, _, _)
SubpassFinalizeLoop(pStorage, sub, s) ==
    IF s < apiInfo.subpassCount
    THEN SubpassFinalizeLoop(SubpassFinalizeStorage(pStorage, sub[s]), sub, s + 1)
    ELSE pStorage

EndStateFinalizeStorage(pStorage, es) == SyncPointFinalizeStorage(pStorage, es.syncEnd)

\* the block Finalize allocates and fills: its size, the structure written
\* into it, and pStorage when the closing assertion is evaluated
Block(sub, endState) ==
    [ finalSize |-> SizeofRenderPassExecuteInfo + GetTotalExtraSize(sub, endState),
      info      |-> ExecuteInfo(sub, endState),
      pStorage  |-> EndStateFinalizeStorage(
                        SubpassFinalizeLoop(
                            SizeofRenderPassExecuteInfo
                                + apiInfo.subpassCount * SizeofRPExecuteSubpassInfo,
                            sub, 0),
                        endState) ]

(***************************************************************************)
(* Build: the order of the phases                                          *)
(***************************************************************************)
\* the loop "for (subpass = 0; (subpass < m_subpassCount) && (result ==
\* Success); ++subpass)" and the guards that follow it: where Build goes when
\* BuildInitialState or BuildSubpass returned res and the loop variable is s
AfterSubpassLoopStep(res, s) ==
    IF (s < apiInfo.subpassCount) /\ (res = Success) THEN "BuildSubpass"
    ELSE IF res = Success THEN "BuildEndState"
    ELSE "return"

\* variant: Finalize is entered whatever BuildEndState returned
AfterBuildEndState_IgnoresResult(res) ==
    "Finalize"

AfterBuildEndState(res) == IF res = Success THEN "Finalize" ELSE "return"

AfterFinalize(res) == IF res = Success THEN "Cleanup" ELSE "return"

Working ==
    [ att |-> m_pAttachments, sub |-> m_pSubpasses, endState |-> m_endState,
      result |-> result, allocs |-> 0, failAt |-> 0, log |-> trackLog,
      depLog |-> dependencyLog, waits |-> waitLog ]

\* the outcomes of a phase: no arena allocation fails, or the k-th one does
Outcomes(Phase(_)) ==
    { Phase([Working EXCEPT !.failAt = k]) : k \in 0..Phase(Working).allocs }

Commit(st) ==
    /\ m_pAttachments' = st.att
    /\ m_pSubpasses' = st.sub
    /\ m_endState' = st.endState
    /\ result' = st.result
    /\ trackLog' = st.log
    /\ dependencyLog' = st.depLog
    /\ waitLog' = st.waits

DoBuildInitialState ==
    /\ pc = "BuildInitialState"
    /\ \E st \in Outcomes(BuildInitialState) :
          /\ Commit(st)
          /\ subpass' = 0
          /\ pc' = AfterSubpassLoopStep(st.result, 0)
    /\ phaseLog' = Append(phaseLog, <<"BuildInitialState">>)
    /\ UNCHANGED <<apiInfo, ppResult, heap>>

DoBuildSubpass ==
    /\ pc = "BuildSubpass"
    /\ \E st \in Outcomes(LAMBDA w : BuildSubpass(w, subpass)) :
          /\ Commit(st)
          /\ subpass' = subpass + 1
          /\ pc' = AfterSubpassLoopStep(st.result, subpass + 1)
    /\ phaseLog' = Append(phaseLog, <<"BuildSubpass", subpass>>)
    /\ UNCHANGED <<apiInfo, ppResult, heap>>

DoBuildEndState ==
    /\ pc = "BuildEndState"
    /\ \E st \in Outcomes(BuildEndState) :
          /\ Commit(st)
          /\ pc' = AfterBuildEndState(st.result)
    /\ phaseLog' = Append(phaseLog, <<"BuildEndState">>)
    /\ UNCHANGED <<apiInfo, subpass, ppResult, heap>>

\* RenderPassBuilder::Finalize with pfnAllocation returning a block (allocOk)
\* or null: [result, ppResult, heap] afterwards
\* variant: the block is kept and stored in *ppResult before the null check
Finalize_StoresBeforeCheck(allocOk) ==
    [ result   |-> IF allocOk THEN Success ELSE ErrorOutOfMemory,
      ppResult |-> <<Len(heap) + 1>>,
      heap     |-> Append(heap, Block(m_pSubpasses, m_endState)) ]

Finalize(allocOk) ==
    IF allocOk
    THEN [ result   |-> Success,
           ppResult |-> <<Len(heap) + 1>>,
           heap     |-> Append(heap, Block(m_pSubpasses, m_endState)) ]
    ELSE [ result   |-> ErrorOutOfMemory,
           ppResult |-> ppResult,
           heap     |-> heap ]

DoFinalize ==
    /\ pc = "Finalize"
    /\ \E f \in {Finalize(allocOk) : allocOk \in BOOLEAN} :
          /\ result' = f.result
          /\ ppResult' = f.ppResult
          /\ heap' = f.heap
          /\ pc' = AfterFinalize(f.result)
    /\ phaseLog' = Append(phaseLog, <<"Finalize">>)
    /\ UNCHANGED <<apiInfo, m_pAttachments, m_pSubpasses, m_endState, subpass,
                   trackLog, dependencyLog, waitLog>>

DoCleanup ==
    /\ pc = "Cleanup"
    /\ pc' = "return"
    /\ phaseLog' = Append(phaseLog, <<"Cleanup">>)
    /\ UNCHANGED <<apiInfo, m_pAttachments, m_pSubpasses, m_endState, result, subpass,
                   ppResult, heap, trackLog, dependencyLog, waitLog>>

\* return PalToVkResult(result)
DoReturn ==
    /\ pc = "return"
    /\ pc' = "done"
    /\ UNCHANGED <<apiInfo, m_pAttachments, m_pSubpasses, m_endState, result, subpass,
                   ppResult, heap, trackLog, dependencyLog, waitLog, phaseLog>>

Next ==
    \/ DoBuildInitialState
    \/ DoBuildSubpass
    \/ DoBuildEndState
    \/ DoFinalize
    \/ DoCleanup
    \/ DoReturn

(***************************************************************************)
(* Render pass descriptions                                                *)
(***************************************************************************)
\* a C array with the elements of a sequence, indexed from 0
Arr(seq) == [i \in 0..(Len(seq) - 1) |-> seq[i + 1]]

Ref(attachment, layout) == [attachment |-> attachment, layout |-> layout]

Attachment(format, loadOp, stencilLoadOp, initialLayout, finalLayout) ==
    [ format |-> format, loadOp |-> loadOp, stencilLoadOp |-> stencilLoadOp,
      initialLayout |-> initialLayout, finalLayout |-> finalLayout ]

Subpass(color, resolve, ds, input, preserve) ==
    [ colorAttachmentCount    |-> Len(color),
      pColorAttachments       |-> Arr(color),
      pResolveAttachments     |-> Arr(resolve),
      pDepthStencilAttachment |-> Arr(ds),
      inputAttachmentCount    |-> Len(input),
      pInputAttachments       |-> Arr(input),
      preserveAttachmentCount |-> Len(preserve),
      pPreserveAttachments    |-> Arr(preserve) ]

Dependency(src, dst, srcStage, dstStage, srcAccess, dstAccess) ==
    [ srcSubpass |-> src, dstSubpass |-> dst,
      srcStageMask |-> srcStage, dstStageMask |-> dstStage,
      srcAccessMask |-> srcAccess, dstAccessMask |-> dstAccess ]

RenderPass(attachments, subpasses, dependencies) ==
    [ attachmentCount |-> Len(attachments), pAttachments |-> Arr(attachments),
      subpassCount    |-> Len(subpasses),   pSubpasses   |-> Arr(subpasses),
      dependencyCount |-> Len(dependencies), pDependencies |-> Arr(dependencies) ]

InitWith(inputs) ==
    /\ apiInfo \in inputs
    /\ m_pAttachments = nullptr
    /\ m_pSubpasses = nullptr
    /\ m_endState = EndState
    /\ result = Success
    /\ pc = "BuildInitialState"
    /\ subpass = 0
    /\ ppResult = nullptr
    /\ heap = <<>>
    /\ trackLog = <<>>
    /\ dependencyLog = <<>>
    /\ waitLog = <<>>
    /\ phaseLog = <<>>

(***************************************************************************)
(* Bounds of the checked descriptions                                      *)
(***************************************************************************)
\* the general family has up to MaxSubpasses subpasses
MaxSubpasses == 3

\* stage and access masks of a dependency range over 0..MaxMask
MaxMask == 2

(***************************************************************************)
(* Attachment descriptions                                                 *)
(***************************************************************************)
ColorClear ==
    Attachment("COLOR", VK_ATTACHMENT_LOAD_OP_CLEAR, VK_ATTACHMENT_LOAD_OP_DONT_CARE,
               VK_IMAGE_LAYOUT_UNDEFINED, VK_IMAGE_LAYOUT_COLOR_ATTACHMENT_OPTIMAL)

ColorLoad ==
    Attachment("COLOR", VK_ATTACHMENT_LOAD_OP_LOAD, VK_ATTACHMENT_LOAD_OP_CLEAR,
               VK_IMAGE_LAYOUT_COLOR_ATTACHMENT_OPTIMAL, VK_IMAGE_LAYOUT_SHADER_READ_ONLY_OPTIMAL)

DepthStencilClearStencil ==
    Attachment("DEPTH_STENCIL", VK_ATTACHMENT_LOAD_OP_DONT_CARE, VK_ATTACHMENT_LOAD_OP_CLEAR,
               VK_IMAGE_LAYOUT_UNDEFINED, VK_IMAGE_LAYOUT_DEPTH_STENCIL_ATTACHMENT_OPTIMAL)

DepthClear ==
    Attachment("DEPTH", VK_ATTACHMENT_LOAD_OP_CLEAR, VK_ATTACHMENT_LOAD_OP_CLEAR,
               VK_IMAGE_LAYOUT_DEPTH_STENCIL_ATTACHMENT_OPTIMAL, VK_IMAGE_LAYOUT_GENERAL)

AttachmentPairs ==
    { <<ColorClear, ColorClear>>,
      <<ColorLoad, DepthStencilClearStencil>>,
      <<ColorClear, DepthClear>> }

(***************************************************************************)
(* Subpass descriptions over attachments 0 and 1                           *)
(***************************************************************************)
ColorRef(a) == Ref(a, VK_IMAGE_LAYOUT_COLOR_ATTACHMENT_OPTIMAL)

DepthRef(a) == Ref(a, VK_IMAGE_LAYOUT_DEPTH_STENCIL_ATTACHMENT_OPTIMAL)

InputRef(a) == Ref(a, VK_IMAGE_LAYOUT_SHADER_READ_ONLY_OPTIMAL)

GeneralRef(a) == Ref(a, VK_IMAGE_LAYOUT_GENERAL)

UnusedRef == Ref(VK_ATTACHMENT_UNUSED, VK_IMAGE_LAYOUT_UNDEFINED)

EmptySubpass == Subpass(<<>>, <<>>, <<>>, <<>>, <<>>)

SubpassShapes ==
    { EmptySubpass,
      Subpass(<<ColorRef(0)>>, <<>>, <<>>, <<>>, <<>>),
      Subpass(<<ColorRef(0)>>, <<ColorRef(1)>>, <<>>, <<>>, <<>>),
      Subpass(<<UnusedRef>>, <<ColorRef(1)>>, <<>>, <<>>, <<>>),
      Subpass(<<>>, <<>>, <<DepthRef(1)>>, <<InputRef(0)>>, <<>>),
      Subpass(<<GeneralRef(0)>>, <<>>, <<>>, <<GeneralRef(0), InputRef(1)>>, <<1>>) }

\* the sequences over S of length at most n
RECURSIVE SeqsUpTo(_, _)
SeqsUpTo(S, n) ==
    IF n = 0 THEN {<<>>}
    ELSE LET shorter == SeqsUpTo(S, n - 1)
         IN shorter \cup {Append(q, x) : q \in {r \in shorter : Len(r) = n - 1}, x \in S}

\* General family: two attachments, up to MaxSubpasses subpasses, no dependency
GeneralInputs ==
    { RenderPass(atts, subs, <<>>) :
          atts \in AttachmentPairs, subs \in SeqsUpTo(SubpassShapes, MaxSubpasses) }
    \cup { RenderPass(<<>>, <<EmptySubpass>>, <<>>) }

(***************************************************************************)
(* Dependency family: a resolve or a color write in subpass 0, a read in   *)
(* subpass 1, and up to two dependencies                                   *)
(***************************************************************************)
Masks == 0..MaxMask

MaskProfiles ==
    { <<0, 0, 0, 0>> }
    \cup { <<m, 0, 0, 0>> : m \in Masks \ {0} }
    \cup { <<0, m, 0, 0>> : m \in Masks \ {0} }
    \cup { <<0, 0, m, 0>> : m \in Masks \ {0} }
    \cup { <<0, 0, 0, m>> : m \in Masks \ {0} }
    \cup { <<m, m, m, m>> : m \in Masks \ {0} }

DependencyEnds ==
    { <<VK_SUBPASS_EXTERNAL, 0>>, <<VK_SUBPASS_EXTERNAL, 1>>, <<0, 1>>, <<0, 0>>,
      <<0, VK_SUBPASS_EXTERNAL>>, <<1, VK_SUBPASS_EXTERNAL>> }

Dependencies ==
    { Dependency(e[1], e[2], m[1], m[2], m[3], m[4]) : e \in DependencyEnds, m \in MaskProfiles }

\* a second dependency carries the largest masks
SecondDependencies ==
    { Dependency(e[1], e[2], MaxMask, MaxMask, MaxMask, MaxMask) :
          e \in { <<VK_SUBPASS_EXTERNAL, 1>>, <<0, 1>>, <<1, VK_SUBPASS_EXTERNAL>> } }

DependencyLists ==
    { <<d>> : d \in Dependencies }
    \cup { <<d1, d2>> : d1 \in Dependencies, d2 \in SecondDependencies }

DependencyInputs ==
    { RenderPass(<<ColorClear, ColorClear>>, <<s0, s1>>, deps) :
          s0 \in { Subpass(<<ColorRef(0)>>, <<ColorRef(1)>>, <<>>, <<>>, <<>>),
                   Subpass(<<ColorRef(0)>>, <<>>, <<>>, <<>>, <<>>) },
          s1 \in { Subpass(<<>>, <<>>, <<>>, <<InputRef(0)>>, <<>>),
                   Subpass(<<>>, <<>>, <<>>, <<InputRef(1)>>, <<>>),
                   EmptySubpass },
          deps \in DependencyLists }

(***************************************************************************)
(* Resolve family: five color attachments, a resolve in subpass 0, two     *)
(* resolves in subpass 1, one reference in subpass 2                       *)
(***************************************************************************)
ResolveInputs ==
    { RenderPass(<<ColorClear, ColorClear, ColorClear, ColorClear, ColorClear>>,
                 << Subpass(<<ColorRef(0)>>, <<ColorRef(1)>>, <<>>, <<>>, <<>>),
                    Subpass(<<ColorRef(2), ColorRef(4)>>, <<ColorRef(3), second>>,
                            <<>>, <<>>, <<>>),
                    Subpass(<<>>, <<>>, <<>>, <<InputRef(a)>>, <<>>) >>,
                 deps) :
          second \in {ColorRef(1), UnusedRef},
          a \in 0..4,
          deps \in { <<>>,
                     <<Dependency(0, 1, MaxMask, MaxMask, MaxMask, MaxMask)>>,
                     <<Dependency(1, 2, MaxMask, MaxMask, MaxMask, MaxMask)>> } }

(***************************************************************************)
(* Single-attachment family: one attachment, up to MaxSubpasses subpasses  *)
(* that reference it, no dependency                                        *)
(***************************************************************************)
SingleAttachmentShapes ==
    { EmptySubpass,
      Subpass(<<ColorRef(0)>>, <<>>, <<>>, <<>>, <<>>),
      Subpass(<<>>, <<>>, <<>>, <<InputRef(0)>>, <<>>),
      Subpass(<<>>, <<>>, <<DepthRef(0)>>, <<>>, <<>>),
      Subpass(<<>>, <<>>, <<>>, <<>>, <<0>>) }

SingleAttachmentInputs ==
    { RenderPass(<<att>>, subs, <<>>) :
          att \in {ColorClear, ColorLoad, DepthStencilClearStencil},
          subs \in SeqsUpTo(SingleAttachmentShapes, MaxSubpasses) }

Inputs == GeneralInputs \cup SingleAttachmentInputs \cup DependencyInputs \cup ResolveInputs

Init == InitWith(Inputs)

Spec == Init /\ [][Next]_vars

(***************************************************************************)
(* Properties                                                              *)
(***************************************************************************)
\* BuildInitialState has returned success
InitialStateBuilt == (phaseLog # <<>>) /\ ((Len(phaseLog) > 1) \/ (result = Success))

\* Build has returned success: *ppResult points at the finalized block
Built == (pc = "done") /\ (result = Success)

BuiltInfo == heap[ppResult[1]].info

ReferencingSubpasses(a) ==
    { s \in 0..(apiInfo.subpassCount - 1) : GetSubpassReferenceMask(s, a) # {} }

SetMin(S) == CHOOSE x \in S : \A y \in S : x <= y

SetMax(S) == CHOOSE x \in S : \A y \in S : y <= x

\* the load-op clear records of subpass s in the finalized block
ClearRecords(s) ==
    BuiltInfo.pSubpasses[s].begin.loadOps.pColorClears
        \o BuiltInfo.pSubpasses[s].begin.loadOps.pDsClears

\* positions <<subpass, index>> of the clear records that name attachment a
ClearsNaming(a) ==
    { p \in UNION { {<<s, i>> : i \in 1..Len(ClearRecords(s))} :
                        s \in DOMAIN BuiltInfo.pSubpasses } :
        ClearRecords(p[1])[p[2]].attachment = a }

\* C1: once BuildInitialState has succeeded, and in every later state, each
\* attachment's firstUseSubpass is the lowest and its finalUseSubpass the
\* highest subpass index whose reference mask for it is non-empty; an
\* attachment no subpass references keeps the external sentinel in both.
C1_FirstAndFinalUse ==
    InitialStateBuilt =>
        \A a \in DOMAIN m_pAttachments :
            IF ReferencingSubpasses(a) = {}
            THEN /\ m_pAttachments[a].firstUseSubpass = VK_SUBPASS_EXTERNAL
                 /\ m_pAttachments[a].finalUseSubpass = VK_SUBPASS_EXTERNAL
            ELSE /\ m_pAttachments[a].firstUseSubpass = SetMin(ReferencingSubpasses(a))
                 /\ m_pAttachments[a].finalUseSubpass = SetMax(ReferencingSubpasses(a))

\* Build has finished with one attachment referenced in subpasses 0 and 2 but
\* not in subpass 1, and another attachment referenced nowhere
C1_Witness ==
    /\ pc = "done"
    /\ InitialStateBuilt
    /\ \E a, b \in DOMAIN m_pAttachments :
          /\ ReferencingSubpasses(a) = {0, 2}
          /\ m_pAttachments[a].firstUseSubpass = 0
          /\ m_pAttachments[a].finalUseSubpass = 2
          /\ ReferencingSubpasses(b) = {}
          /\ m_pAttachments[b].firstUseSubpass = VK_SUBPASS_EXTERNAL

\* C2: after a successful Build, the colorClears and dsClears lists of all
\* subpasses of the built structure together hold at most one record naming
\* an attachment, and that record is in the attachment's first-use subpass.
C2_OneClearInFirstUse ==
    Built =>
        \A a \in DOMAIN m_pAttachments :
            /\ Cardinality(ClearsNaming(a)) <= 1
            /\ \A p \in ClearsNaming(a) : p[1] = m_pAttachments[a].firstUseSubpass

\* a built pass whose attachment is cleared in its first-use subpass 1 and
\* referenced again in subpass 2
C2_Witness ==
    /\ Built
    /\ \E a \in DOMAIN m_pAttachments :
          /\ Cardinality(ClearsNaming(a)) = 1
          /\ m_pAttachments[a].firstUseSubpass = 1
          /\ m_pAttachments[a].finalUseSubpass = 2

\* C3: an attachment whose reference mask in its first-use subpass is exactly
\* resolve-destination has no clear record in any subpass of the built
\* structure, whatever its load ops.
C3_ResolveDstNotCleared ==
    Built =>
        \A a \in DOMAIN m_pAttachments :
            ( /\ m_pAttachments[a].firstUseSubpass # VK_SUBPASS_EXTERNAL
              /\ GetSubpassReferenceMask(m_pAttachments[a].firstUseSubpass, a)
                     = {AttachRefResolveDst} )
            => ClearsNaming(a) = {}

\* a built pass with a load-op-clear attachment first used only as a resolve
\* destination and referenced again by a later subpass
C3_Witness ==
    /\ Built
    /\ \E a \in DOMAIN m_pAttachments :
          /\ m_pAttachments[a].firstUseSubpass # VK_SUBPASS_EXTERNAL
          /\ GetSubpassReferenceMask(m_pAttachments[a].firstUseSubpass, a)
                 = {AttachRefResolveDst}
          /\ ClearAspect(apiInfo.pAttachments[a]) # {}
          /\ m_pAttachments[a].finalUseSubpass > m_pAttachments[a].firstUseSubpass
          /\ \E i \in 1..Len(trackLog) :
                /\ trackLog[i].attachment = a
                /\ trackLog[i].subpass = m_pAttachments[a].firstUseSubpass

\* every sync point the builder holds
AllSyncPoints ==
    UNION { { m_pSubpasses[s].syncTop, m_pSubpasses[s].syncPreResolve,
              m_pSubpasses[s].syncBottom } : s \in DOMAIN m_pSubpasses }
        \cup {m_endState.syncEnd}

\* all four barrier masks zero, no flag bit set, no transition
NothingRecorded(syncPoint) ==
    /\ syncPoint.barrier.srcStageMask = 0
    /\ syncPoint.barrier.dstStageMask = 0
    /\ syncPoint.barrier.srcAccessMask = 0
    /\ syncPoint.barrier.dstAccessMask = 0
    /\ syncPoint.barrier.flags = {}
    /\ syncPoint.transitions = <<>>

RecordedTransitions ==
    UNION { {p.transitions[i] : i \in 1..Len(p.transitions)} : p \in AllSyncPoints }

\* C4: a sync point is active if and only if one of its four barrier masks
\* is non-zero, a flag bit is set or its transition list is non-empty; so
\* appending a transition to an inactive sync point makes it active.
C4_ActiveSyncPoint ==
    /\ \A p \in AllSyncPoints : IsSyncPointActive(p) <=> ~NothingRecorded(p)
    /\ \A p \in AllSyncPoints : \A t \in RecordedTransitions :
          ~IsSyncPointActive(p)
              => IsSyncPointActive([p EXCEPT !.transitions = Append(@, t)])

\* the builder holds an inactive sync point and one that is active only
\* through a layout transition
C4_Witness ==
    /\ \E p \in AllSyncPoints : NothingRecorded(p) /\ ~IsSyncPointActive(p)
    /\ \E p \in AllSyncPoints :
          /\ NothingRecorded([p EXCEPT !.transitions = <<>>])
          /\ Len(p.transitions) > 0
          /\ IsSyncPointActive(p)

\* C5: Build stores into *ppResult if and only if it returns success; when a
\* phase fails with out-of-memory *ppResult keeps its previous value and no
\* block obtained from the permanent allocator remains allocated.
C5_ResultPointer ==
    /\ (ppResult # nullptr) => (result = Success) /\ (ppResult = <<Len(heap)>>)
    /\ (pc = "done") => ((ppResult # nullptr) <=> (result = Success))
    /\ (result # Success) => (ppResult = nullptr) /\ (heap = <<>>)
    /\ Len(heap) <= 1

\* Build has returned out-of-memory after the permanent allocator failed in
\* Finalize
C5_Witness ==
    /\ pc = "done"
    /\ result = ErrorOutOfMemory
    /\ phaseLog[Len(phaseLog)] = <<"Finalize">>
    /\ ppResult = nullptr
    /\ heap = <<>>

\* C6: once a phase has returned out-of-memory no later phase runs: the
\* builder's records, the permanent heap and *ppResult stay as they are and
\* Build returns that result.
C6_NoPhaseAfterFailure ==
    [][ (result # Success) =>
            /\ phaseLog' = phaseLog
            /\ result' = result
            /\ pc' \in {"return", "done"}
            /\ UNCHANGED <<m_pAttachments, m_pSubpasses, m_endState, heap, ppResult>> ]_vars

\* Build has returned out-of-memory from BuildSubpass(0) of a pass with
\* further subpasses; nothing ran after it
C6_Witness ==
    /\ pc = "done"
    /\ result = ErrorOutOfMemory
    /\ phaseLog = << <<"BuildInitialState">>, <<"BuildSubpass", 0>> >>
    /\ apiInfo.subpassCount > 1
    /\ heap = <<>>

\* BuildEndState has run (to success or to an allocation failure)
EndStateBuilt == \E i \in 1..Len(phaseLog) : phaseLog[i] = <<"BuildEndState">>

\* C7: when BuildEndState has completed no attachment has resolvesInFlight
\* set.
C7_NoResolveInFlightAtEnd ==
    EndStateBuilt =>
        \A a \in DOMAIN m_pAttachments : m_pAttachments[a].resolvesInFlight = FALSE

\* BuildEndState has completed for a pass whose last subpass resolves, with no
\* dependency on it: the wait was recorded in the end sync point
C7_Witness ==
    /\ EndStateBuilt
    /\ result = Success
    /\ apiInfo.dependencyCount = 0
    /\ apiInfo.subpassCount > 0
    /\ Len(m_pSubpasses[apiInfo.subpassCount - 1].resolves) > 0
    /\ "postResolveSync" \in m_endState.syncEnd.barrier.flags
    /\ \A a \in DOMAIN m_pAttachments : m_pAttachments[a].resolvesInFlight = FALSE

\* where a sync point executes: subpass s runs syncTop at 3s, syncPreResolve
\* at 3s + 1, then its resolves, then syncBottom at 3s + 2; the end sync
\* point follows the last subpass
SyncPosition(pSync) ==
    IF pSync.field = "syncEnd" THEN 3 * apiInfo.subpassCount
    ELSE 3 * pSync.subpass
           + (IF pSync.field = "syncTop" THEN 0
              ELSE IF pSync.field = "syncPreResolve" THEN 1 ELSE 2)

SyncPointers ==
    UNION { {SyncTopOf(s), SyncPreResolveOf(s), [field |-> "syncBottom", subpass |-> s]} :
                s \in DOMAIN m_pSubpasses } \cup {SyncEnd}

SyncPointAt(pSync) ==
    IF pSync.field = "syncEnd" THEN m_endState.syncEnd
    ELSE m_pSubpasses[pSync.subpass][pSync.field]

\* a resolve-wait is recorded in a sync point that executes after the
\* resolves of subpass s and no later than pSync
ResolveWaitBetween(s, pSync) ==
    \E q \in SyncPointers :
        /\ SyncPosition(q) >= 3 * s + 2
        /\ SyncPosition(q) <= SyncPosition(pSync)
        /\ "postResolveSync" \in SyncPointAt(q).barrier.flags

\* attachment x takes part in a resolve scheduled by a subpass after s
ResolvedAgainAfter(x, s) ==
    \E s2 \in DOMAIN m_pSubpasses : \E r2 \in 1..Len(m_pSubpasses[s2].resolves) :
        /\ s2 > s
        /\ x \in { m_pSubpasses[s2].resolves[r2].src.attachment,
                   m_pSubpasses[s2].resolves[r2].dst.attachment }

\* C8: after subpass s has scheduled a resolve from A to B, for every usage of
\* A or B tracked by a later subpass or by the end state a resolve-wait is
\* recorded in a sync point after subpass s's resolves and no later than the
\* usage's sync point, and neither A nor B has a resolve in flight when the
\* usage's transition is recorded (a resolve that a later subpass scheduled
\* on the attachment is not counted); dependencies are not needed for this.
C8_ResolveWaitBeforeLaterUse ==
    \A s \in DOMAIN m_pSubpasses : \A r \in 1..Len(m_pSubpasses[s].resolves) :
        \A i \in 1..Len(trackLog) :
            ( /\ trackLog[i].subpass > s
              /\ trackLog[i].attachment \in
                     { m_pSubpasses[s].resolves[r].src.attachment,
                       m_pSubpasses[s].resolves[r].dst.attachment } )
            => /\ ResolveWaitBetween(s, trackLog[i].pSync)
               /\ \A x \in { m_pSubpasses[s].resolves[r].src.attachment,
                             m_pSubpasses[s].resolves[r].dst.attachment } :
                      (x \in trackLog[i].inFlight) => ResolvedAgainAfter(x, s)

\* BuildEndState has returned success
EndStateReturnedSuccess ==
    \E i \in 1..Len(phaseLog) :
        (phaseLog[i] = <<"BuildEndState">>) /\ ((i < Len(phaseLog)) \/ (result = Success))

\* scenario 1: one subpass, one color attachment (load-op clear, initial layout
\* undefined, final layout color-attachment-optimal) referenced in
\* color-attachment-optimal, no dependencies
Scenario1 ==
    RenderPass(<<ColorClear>>, <<Subpass(<<ColorRef(0)>>, <<>>, <<>>, <<>>, <<>>)>>, <<>>)

\* C9 as amended: for scenario 1 the end sync point's transition list is
\* empty, but the end sync point is active (hasEndSyncPoint is true): with no
\* external-outgoing dependency supplied, the implicit-outgoing flag is set
\* on it. The built structure carries the same.
C9_Scenario1EndSyncPoint ==
    ((apiInfo = Scenario1) /\ EndStateReturnedSuccess) =>
        /\ m_endState.syncEnd.transitions = <<>>
        /\ m_endState.syncEnd.barrier.flags = {"implicitExternalOutgoing"}
        /\ IsSyncPointActive(m_endState.syncEnd)
        /\ m_endState.flags.hasEndSyncPoint = TRUE
        /\ Built => /\ BuiltInfo.end.flags.hasEndSyncPoint = TRUE
                    /\ BuiltInfo.end.syncEnd.transitionCount = 0

\* scenario 1 has been built: one initial transition in syncTop, one color
\* clear, no resolve, and its end state as finalized
C9_Witness ==
    /\ apiInfo = Scenario1
    /\ Built
    /\ BuiltInfo.pSubpasses[0].begin.syncTop.transitionCount = 1
    /\ BuiltInfo.pSubpasses[0].begin.loadOps.colorClearCount = 1
    /\ BuiltInfo.pSubpasses[0].end.resolveCount = 0
    /\ BuiltInfo.end.syncEnd.transitionCount = 0
    /\ BuiltInfo.end.flags.hasEndSyncPoint = TRUE

\* C9 as stated: for scenario 1 the end sync point's transition list is empty
\* and the end sync point is inactive (hasEndSyncPoint is false).
C9_AsStated ==
    ((apiInfo = Scenario1) /\ EndStateReturnedSuccess) =>
        /\ m_endState.syncEnd.transitions = <<>>
        /\ ~IsSyncPointActive(m_endState.syncEnd)
        /\ m_endState.flags.hasEndSyncPoint = FALSE

\* BuildSubpass(s) has returned success
SubpassBuilt(s) ==
    \E i \in 1..Len(phaseLog) :
        (phaseLog[i] = <<"BuildSubpass", s>>) /\ ((i < Len(phaseLog)) \/ (result = Success))

\* two subpasses, attachment a a color target in subpass 0 and an input
\* attachment in subpass 1, no dependency supplied, both subpasses built
ColorThenInput(a) ==
    /\ apiInfo.subpassCount = 2
    /\ apiInfo.dependencyCount = 0
    /\ a \in DOMAIN apiInfo.pAttachments
    /\ AttachRefColor \in GetSubpassReferenceMask(0, a)
    /\ AttachRefInput \in GetSubpassReferenceMask(1, a)
    /\ SubpassBuilt(1)

\* C10 as amended: in such a pass the implicit-incoming flag is set on
\* subpass 0's syncTop, the attachment's first-use subpass; on subpass 1's
\* syncTop, which holds the transition, it is set only when some other
\* attachment has its first use in subpass 1.
C10_ImplicitIncomingAtFirstUse ==
    \A a \in DOMAIN m_pAttachments :
        ColorThenInput(a) =>
            /\ "implicitExternalIncoming" \in m_pSubpasses[0].syncTop.barrier.flags
            /\ ("implicitExternalIncoming" \in m_pSubpasses[1].syncTop.barrier.flags)
                   <=> (\E b \in DOMAIN m_pAttachments :
                            /\ ReferencingSubpasses(b) # {}
                            /\ SetMin(ReferencingSubpasses(b)) = 1)

\* scenario 2 with a single attachment has been built: subpass 1's syncTop
\* holds the color-to-shader-read transition and no implicit-incoming flag
C10_Witness ==
    /\ apiInfo.attachmentCount = 1
    /\ ColorThenInput(0)
    /\ Len(m_pSubpasses[1].syncTop.transitions) = 1
    /\ m_pSubpasses[1].syncTop.transitions[1].prevLayout
           = RPImageLayout(VK_IMAGE_LAYOUT_COLOR_ATTACHMENT_OPTIMAL, {})
    /\ m_pSubpasses[1].syncTop.transitions[1].nextLayout
           = RPImageLayout(VK_IMAGE_LAYOUT_SHADER_READ_ONLY_OPTIMAL, {})
    /\ "implicitExternalIncoming" \notin m_pSubpasses[1].syncTop.barrier.flags
    /\ "implicitExternalIncoming" \in m_pSubpasses[0].syncTop.barrier.flags

\* C10 as stated: in such a pass the implicit-incoming flag is set on subpass
\* 1's syncTop.
C10_AsStated ==
    \A a \in DOMAIN m_pAttachments :
        ColorThenInput(a) =>
            "implicitExternalIncoming" \in m_pSubpasses[1].syncTop.barrier.flags

\* the bytes of the variable-length lists of one written subpass record
ListBytes(p) ==
    SizeofRPTransitionInfo * (p.begin.syncTop.transitionCount
                                + p.end.syncPreResolve.transitionCount
                                + p.end.syncBottom.transitionCount)
      + SizeofRPLoadOpClearInfo * (p.begin.loadOps.colorClearCount
                                     + p.begin.loadOps.dsClearCount)
      + SizeofRPResolveInfo * p.end.resolveCount

RECURSIVE SumListBytes(_, _)
SumListBytes(info, n) ==
    IF n = 0 THEN 0 ELSE ListBytes(info.pSubpasses[n - 1]) + SumListBytes(info, n - 1)

\* C11: for every state Finalize is given, the size the size pass computes
\* (header, per-subpass records, and count times element size of every
\* transition, clear and resolve list of every subpass and of the end state)
\* equals the advance of the write pass's cursor: pStorage ends at the end of
\* the allocation, as Finalize asserts.
C11_SizeEqualsCursor ==
    \A b \in 1..Len(heap) :
        /\ heap[b].pStorage = heap[b].finalSize
        /\ heap[b].finalSize =
               SizeofRenderPassExecuteInfo
                 + apiInfo.subpassCount * SizeofRPExecuteSubpassInfo
                 + SumListBytes(heap[b].info, apiInfo.subpassCount)
                 + SizeofRPTransitionInfo * heap[b].info.end.syncEnd.transitionCount

\* a built pass whose block holds transitions, a color clear, a depth/stencil
\* clear and a resolve
C11_Witness ==
    /\ Built
    /\ heap[ppResult[1]].pStorage = heap[ppResult[1]].finalSize
    /\ \E s \in DOMAIN BuiltInfo.pSubpasses :
          BuiltInfo.pSubpasses[s].begin.loadOps.dsClearCount > 0
    /\ \E s \in DOMAIN BuiltInfo.pSubpasses :
          BuiltInfo.pSubpasses[s].begin.loadOps.colorClearCount > 0
    /\ \E s \in DOMAIN BuiltInfo.pSubpasses :
          /\ BuiltInfo.pSubpasses[s].end.resolveCount > 0
          /\ BuiltInfo.pSubpasses[s].end.syncPreResolve.transitionCount > 0
    /\ BuiltInfo.end.syncEnd.transitionCount > 0

\* no arena allocation has failed (Finalize's allocator may have)
ArenaOk == (result = Success) \/ (phaseLog[Len(phaseLog)] = <<"Finalize">>)

\* the transitions the logged calls with destination q ask for, in call
\* order: one per call whose requested pair differs from the tracked pair
RECURSIVE ExpectedTransitions(_, _)
ExpectedTransitions(q, n) ==
    IF n = 0 THEN <<>>
    ELSE IF (trackLog[n].pSync = q) /\ (trackLog[n].prevLayout # trackLog[n].layout)
         THEN Append(ExpectedTransitions(q, n - 1),
                     [ attachment |-> trackLog[n].attachment,
                       prevLayout |-> trackLog[n].prevLayout,
                       nextLayout |-> trackLog[n].layout ])
         ELSE ExpectedTransitions(q, n - 1)

\* the last logged call before position n that tracked attachment a (0: none)
RECURSIVE LastCallBefore(_, _)
LastCallBefore(a, n) ==
    IF n <= 1 THEN 0
    ELSE IF trackLog[n - 1].attachment = a THEN n - 1 ELSE LastCallBefore(a, n - 1)

\* C12: a TrackAttachmentUsage call appends exactly one transition
\* (attachment, tracked layout, requested layout) to its sync point when the
\* requested (layout, extra usage) pair differs from the tracked pair and none
\* when they are equal; after the call the tracked pair is the requested
\* pair; no recorded transition has prevLayout equal to nextLayout.
C12_OneTransitionPerLayoutChange ==
    ArenaOk =>
        /\ \A q \in SyncPointers :
              /\ Len(SyncPointAt(q).transitions) = Len(ExpectedTransitions(q, Len(trackLog)))
              /\ \A i \in 1..Len(SyncPointAt(q).transitions) :
                    /\ SyncPointAt(q).transitions[i].attachment
                           = ExpectedTransitions(q, Len(trackLog))[i].attachment
                    /\ SyncPointAt(q).transitions[i].prevLayout
                           = ExpectedTransitions(q, Len(trackLog))[i].prevLayout
                    /\ SyncPointAt(q).transitions[i].nextLayout
                           = ExpectedTransitions(q, Len(trackLog))[i].nextLayout
                    /\ SyncPointAt(q).transitions[i].prevLayout
                           # SyncPointAt(q).transitions[i].nextLayout
        /\ \A n \in 1..Len(trackLog) :
              trackLog[n].prevLayout =
                  IF LastCallBefore(trackLog[n].attachment, n) = 0
                  THEN RPImageLayout(apiInfo.pAttachments[trackLog[n].attachment].initialLayout, {})
                  ELSE trackLog[LastCallBefore(trackLog[n].attachment, n)].layout
        /\ \A a \in DOMAIN m_pAttachments :
              m_pAttachments[a].prevReferenceLayout =
                  IF LastCallBefore(a, Len(trackLog) + 1) = 0
                  THEN RPImageLayout(apiInfo.pAttachments[a].initialLayout, {})
                  ELSE trackLog[LastCallBefore(a, Len(trackLog) + 1)].layout

\* a built pass in which one sync point received a call that changed the
\* layout and a call that found the requested pair already tracked
C12_Witness ==
    /\ Built
    /\ \E i, j \in 1..Len(trackLog) :
          /\ trackLog[i].pSync = trackLog[j].pSync
          /\ trackLog[i].prevLayout # trackLog[i].layout
          /\ trackLog[j].prevLayout = trackLog[j].layout
          /\ Len(SyncPointAt(trackLog[i].pSync).transitions) = 1

\* C13: a transition of attachment A carries the initial-layout-transition
\* flag if and only if it was appended while building A's first-use subpass
\* (it then sits in a sync point of that subpass); transitions appended by a
\* later subpass or by the end state, also for attachments no subpass
\* references, never carry it.
C13_InitialTransitionFlag ==
    \A q \in SyncPointers : \A i \in 1..Len(SyncPointAt(q).transitions) :
        SyncPointAt(q).transitions[i].flags.isInitialLayoutTransition
            <=> ( /\ q.field # "syncEnd"
                  /\ q.subpass
                       = m_pAttachments[SyncPointAt(q).transitions[i].attachment].firstUseSubpass )

\* a built pass with a flagged transition in a first-use subpass, an unflagged
\* one in a later subpass, and an unflagged end transition of an attachment
\* that no subpass references
C13_Witness ==
    /\ Built
    /\ \E q \in SyncPointers : \E i \in 1..Len(SyncPointAt(q).transitions) :
          SyncPointAt(q).transitions[i].flags.isInitialLayoutTransition
    /\ \E q \in SyncPointers : \E i \in 1..Len(SyncPointAt(q).transitions) :
          /\ q.field # "syncEnd"
          /\ ~SyncPointAt(q).transitions[i].flags.isInitialLayoutTransition
    /\ \E i \in 1..Len(m_endState.syncEnd.transitions) :
          /\ ReferencingSubpasses(m_endState.syncEnd.transitions[i].attachment) = {}
          /\ ~m_endState.syncEnd.transitions[i].flags.isInitialLayoutTransition

\* some subpass has tracked a usage of attachment a
TrackedBySubpass(a) ==
    \E i \in 1..Len(trackLog) :
        (trackLog[i].attachment = a) /\ (trackLog[i].subpass # VK_SUBPASS_EXTERNAL)

\* C14: load-op scheduling runs exactly once for every attachment (read here
\* as: every attachment a subpass uses): the loaded flag is set only while the
\* attachment's first-use subpass is built, and after a successful Build it
\* is set for every such attachment.
C14_LoadedExactlyOnce ==
    /\ \A a \in DOMAIN m_pAttachments :
          m_pAttachments[a].loaded =>
              /\ m_pAttachments[a].firstUseSubpass # VK_SUBPASS_EXTERNAL
              /\ m_pAttachments[a].firstUseSubpass < subpass
    /\ Built => \A a \in DOMAIN m_pAttachments :
                    TrackedBySubpass(a) => m_pAttachments[a].loaded

\* the load-op clear records of subpass s held by the builder
BuilderClears(s) == m_pSubpasses[s].colorClears \o m_pSubpasses[s].dsClears

\* the first logged call of subpass s for attachment a
FirstCall(a, s) ==
    CHOOSE n \in 1..Len(trackLog) :
        /\ trackLog[n].attachment = a
        /\ trackLog[n].subpass = s
        /\ \A k \in 1..(n - 1) : ~((trackLog[k].attachment = a) /\ (trackLog[k].subpass = s))

\* C15 as amended: the layout stored in an attachment's load-op-clear record
\* is the layout requested by the first tracked reference of its first-use
\* subpass (the tracked layout after that call's transition), not the layout
\* the attachment held on entry.
C15_ClearLayoutIsRequested ==
    \A s \in DOMAIN m_pSubpasses : \A c \in 1..Len(BuilderClears(s)) :
        BuilderClears(s)[c].layout
            = trackLog[FirstCall(BuilderClears(s)[c].attachment, s)].layout

\* a clear record of an attachment whose initial layout differs from the
\* layout its first reference requests
C15_Witness ==
    \E s \in DOMAIN m_pSubpasses : \E c \in 1..Len(BuilderClears(s)) :
        /\ BuilderClears(s)[c].layout
               = trackLog[FirstCall(BuilderClears(s)[c].attachment, s)].layout
        /\ BuilderClears(s)[c].layout
               # RPImageLayout(
                     apiInfo.pAttachments[BuilderClears(s)[c].attachment].initialLayout, {})

\* C15 as stated: the layout stored in a load-op-clear record is the layout
\* the attachment held before its first-use subpass's transition (the tracked
\* layout on entry, its initial layout).
C15_AsStated ==
    \A s \in DOMAIN m_pSubpasses : \A c \in 1..Len(BuilderClears(s)) :
        /\ BuilderClears(s)[c].layout
               = trackLog[FirstCall(BuilderClears(s)[c].attachment, s)].prevLayout
        /\ BuilderClears(s)[c].layout
               = RPImageLayout(
                     apiInfo.pAttachments[BuilderClears(s)[c].attachment].initialLayout, {})

\* C16: within TrackAttachmentUsage the transition is recorded and the
\* tracked layout updated before load ops are scheduled: when the first call
\* for an attachment in its first-use subpass changes the layout, the clear
\* record's layout is the nextLayout of the transition that call recorded,
\* not its prevLayout.
C16_TransitionBeforeLoadOp ==
    \A s \in DOMAIN m_pSubpasses : \A c \in 1..Len(BuilderClears(s)) :
        (trackLog[FirstCall(BuilderClears(s)[c].attachment, s)].prevLayout
            # trackLog[FirstCall(BuilderClears(s)[c].attachment, s)].layout)
        => \E i \in 1..Len(SyncPointAt(
                       trackLog[FirstCall(BuilderClears(s)[c].attachment, s)].pSync).transitions) :
               /\ SyncPointAt(trackLog[FirstCall(BuilderClears(s)[c].attachment, s)].pSync)
                      .transitions[i].attachment = BuilderClears(s)[c].attachment
               /\ SyncPointAt(trackLog[FirstCall(BuilderClears(s)[c].attachment, s)].pSync)
                      .transitions[i].flags.isInitialLayoutTransition
               /\ SyncPointAt(trackLog[FirstCall(BuilderClears(s)[c].attachment, s)].pSync)
                      .transitions[i].nextLayout = BuilderClears(s)[c].layout
               /\ SyncPointAt(trackLog[FirstCall(BuilderClears(s)[c].attachment, s)].pSync)
                      .transitions[i].prevLayout # BuilderClears(s)[c].layout

\* a built pass with a depth/stencil clear whose attachment changed layout in
\* the call that scheduled the clear
C16_Witness ==
    /\ Built
    /\ \E s \in DOMAIN m_pSubpasses : \E c \in 1..Len(m_pSubpasses[s].dsClears) :
          /\ trackLog[FirstCall(m_pSubpasses[s].dsClears[c].attachment, s)].prevLayout
                 # trackLog[FirstCall(m_pSubpasses[s].dsClears[c].attachment, s)].layout
          /\ m_pSubpasses[s].dsClears[c].layout
                 = trackLog[FirstCall(m_pSubpasses[s].dsClears[c].attachment, s)].layout

\* the color slots of a subpass description, from target on, whose color
\* reference and resolve reference are both used
RECURSIVE ResolveSlots(_, _)
ResolveSlots(desc, target) ==
    IF (desc.pResolveAttachments = nullptr) \/ (target >= desc.colorAttachmentCount)
    THEN <<>>
    ELSE (IF (desc.pResolveAttachments[target].attachment # VK_ATTACHMENT_UNUSED)
             /\ (desc.pColorAttachments[target].attachment # VK_ATTACHMENT_UNUSED)
          THEN <<target>> ELSE <<>>)
         \o ResolveSlots(desc, target + 1)

\* the logged calls of subpass s that track attachment a as refType
CallsOf(s, refType, a) ==
    {n \in 1..Len(trackLog) : /\ trackLog[n].subpass = s
                              /\ trackLog[n].refType = refType
                              /\ trackLog[n].attachment = a}

\* C17 as amended: the source and destination layouts stored in a resolve
\* record are the layouts the two attachments hold after the resolve step's
\* own TrackAttachmentUsage calls: the layouts of the slot's color and resolve
\* references with the resolve-source and resolve-destination usage added.
C17_ResolveLayoutsAfterTracking ==
    \A s \in DOMAIN m_pSubpasses : \A k \in 1..Len(m_pSubpasses[s].resolves) :
        /\ k <= Len(ResolveSlots(apiInfo.pSubpasses[s], 0))
        /\ m_pSubpasses[s].resolves[k].src.layout
               = RPImageLayout(
                     apiInfo.pSubpasses[s].pColorAttachments[
                         ResolveSlots(apiInfo.pSubpasses[s], 0)[k]].layout,
                     LayoutResolveSrc)
        /\ m_pSubpasses[s].resolves[k].dst.layout
               = RPImageLayout(
                     apiInfo.pSubpasses[s].pResolveAttachments[
                         ResolveSlots(apiInfo.pSubpasses[s], 0)[k]].layout,
                     LayoutResolveDst)
        /\ \A n \in CallsOf(s, AttachRefResolveSrc, m_pSubpasses[s].resolves[k].src.attachment) :
               m_pSubpasses[s].resolves[k].src.layout = trackLog[n].layout
        /\ \A n \in CallsOf(s, AttachRefResolveDst, m_pSubpasses[s].resolves[k].dst.attachment) :
               m_pSubpasses[s].resolves[k].dst.layout = trackLog[n].layout

\* a built pass with a resolve record whose two layouts were both changed by
\* the resolve step's tracking calls
C17_Witness ==
    /\ Built
    /\ \E s \in DOMAIN m_pSubpasses : \E k \in 1..Len(m_pSubpasses[s].resolves) :
          /\ \E n \in CallsOf(s, AttachRefResolveSrc, m_pSubpasses[s].resolves[k].src.attachment) :
                /\ trackLog[n].prevLayout # trackLog[n].layout
                /\ m_pSubpasses[s].resolves[k].src.layout = trackLog[n].layout
          /\ \E n \in CallsOf(s, AttachRefResolveDst, m_pSubpasses[s].resolves[k].dst.attachment) :
                /\ trackLog[n].prevLayout # trackLog[n].layout
                /\ m_pSubpasses[s].resolves[k].dst.layout = trackLog[n].layout

\* C17 as stated: the source and destination layouts stored in a resolve
\* record are the layouts the two attachments held before the resolve step's
\* own TrackAttachmentUsage calls.
C17_AsStated ==
    \A s \in DOMAIN m_pSubpasses : \A k \in 1..Len(m_pSubpasses[s].resolves) :
        /\ \A n \in CallsOf(s, AttachRefResolveSrc, m_pSubpasses[s].resolves[k].src.attachment) :
               m_pSubpasses[s].resolves[k].src.layout = trackLog[n].prevLayout
        /\ \A n \in CallsOf(s, AttachRefResolveDst, m_pSubpasses[s].resolves[k].dst.attachment) :
               m_pSubpasses[s].resolves[k].dst.layout = trackLog[n].prevLayout

\* C18: once subpass s is built, its resolve list holds one record per color
\* slot whose color and resolve references are both used, in slot order; the
\* pre-color-resolve-sync flag of syncPreResolve is set exactly when the list
\* is non-empty; and when BuildSubpass(s) returns, both attachments of the
\* record appended last have a resolve in flight.
C18_ResolveRecords ==
    \A s \in DOMAIN m_pSubpasses :
        SubpassBuilt(s) =>
            /\ Len(m_pSubpasses[s].resolves) = Len(ResolveSlots(apiInfo.pSubpasses[s], 0))
            /\ \A k \in 1..Len(m_pSubpasses[s].resolves) :
                  /\ m_pSubpasses[s].resolves[k].src.attachment
                         = apiInfo.pSubpasses[s].pColorAttachments[
                               ResolveSlots(apiInfo.pSubpasses[s], 0)[k]].attachment
                  /\ m_pSubpasses[s].resolves[k].dst.attachment
                         = apiInfo.pSubpasses[s].pResolveAttachments[
                               ResolveSlots(apiInfo.pSubpasses[s], 0)[k]].attachment
            /\ ("preColorResolveSync" \in m_pSubpasses[s].syncPreResolve.barrier.flags)
                   <=> (Len(m_pSubpasses[s].resolves) > 0)
            /\ ((phaseLog[Len(phaseLog)] = <<"BuildSubpass", s>>)
                    /\ (Len(m_pSubpasses[s].resolves) > 0))
               => /\ m_pAttachments[m_pSubpasses[s].resolves[
                         Len(m_pSubpasses[s].resolves)].src.attachment].resolvesInFlight
                  /\ m_pAttachments[m_pSubpasses[s].resolves[
                         Len(m_pSubpasses[s].resolves)].dst.attachment].resolvesInFlight

\* BuildSubpass(s) has just returned success with one resolve record, both of
\* whose attachments are in flight
C18_Witness ==
    /\ result = Success
    /\ Len(phaseLog) > 0
    /\ \E s \in DOMAIN m_pSubpasses :
          /\ phaseLog[Len(phaseLog)] = <<"BuildSubpass", s>>
          /\ Len(m_pSubpasses[s].resolves) = 1
          /\ "preColorResolveSync" \in m_pSubpasses[s].syncPreResolve.barrier.flags
          /\ m_pAttachments[m_pSubpasses[s].resolves[1].src.attachment].resolvesInFlight
          /\ m_pAttachments[m_pSubpasses[s].resolves[1].dst.attachment].resolvesInFlight

\* the phase p has been run by Build
PhaseRan(p) == \E i \in 1..Len(phaseLog) : phaseLog[i] = p

\* the OR of one mask over the dependency records d.. that end at dst
RECURSIVE DependencyMaskOr(_, _, _)
DependencyMaskOr(mask, dst, d) ==
    IF d >= apiInfo.dependencyCount
    THEN 0
    ELSE BitOr(IF apiInfo.pDependencies[d].dstSubpass = dst
               THEN apiInfo.pDependencies[d][mask] ELSE 0,
               DependencyMaskOr(mask, dst, d + 1))

\* the four masks of a sync point are the OR over the dependencies ending at
\* dst once ran holds, and zero before
MasksAre(syncPoint, dst, ran) ==
    \A mask \in {"srcStageMask", "dstStageMask", "srcAccessMask", "dstAccessMask"} :
        syncPoint.barrier[mask] = IF ran THEN DependencyMaskOr(mask, dst, 0) ELSE 0

\* C19: for every subpass S the four barrier masks of S's syncTop are the OR
\* of the masks of all dependency records whose dstSubpass is S (zero when
\* there are none), from the moment BuildSubpass(S) has run; the masks of
\* syncEnd are the OR over the records whose dstSubpass is external, from
\* the moment BuildEndState has run; nothing else changes a sync point's
\* masks; the masks of syncPreResolve and syncBottom stay zero.
C19_MasksAccumulate ==
    /\ \A S \in DOMAIN m_pSubpasses :
          /\ MasksAre(m_pSubpasses[S].syncTop, S, PhaseRan(<<"BuildSubpass", S>>))
          /\ MasksAre(m_pSubpasses[S].syncPreResolve, S, FALSE)
          /\ MasksAre(m_pSubpasses[S].syncBottom, S, FALSE)
    /\ InitialStateBuilt =>
          MasksAre(m_endState.syncEnd, VK_SUBPASS_EXTERNAL, PhaseRan(<<"BuildEndState">>))

\* a built pass in which two dependencies with different non-zero source
\* stage masks end at the same subpass, whose syncTop holds their OR
C19_Witness ==
    /\ Built
    /\ \E S \in DOMAIN m_pSubpasses :
          \E d1, d2 \in 0..(apiInfo.dependencyCount - 1) :
              /\ d1 < d2
              /\ apiInfo.pDependencies[d1].dstSubpass = S
              /\ apiInfo.pDependencies[d2].dstSubpass = S
              /\ apiInfo.pDependencies[d1].srcStageMask # 0
              /\ apiInfo.pDependencies[d2].srcStageMask # 0
              /\ apiInfo.pDependencies[d1].srcStageMask # apiInfo.pDependencies[d2].srcStageMask
              /\ m_pSubpasses[S].syncTop.barrier.srcStageMask
                     = BitOr(apiInfo.pDependencies[d1].srcStageMask,
                             apiInfo.pDependencies[d2].srcStageMask)
              /\ m_pSubpasses[S].syncTop.barrier.srcStageMask
                     # apiInfo.pDependencies[d2].srcStageMask

\* the attachments that, when entry e was taken, had a resolve in flight and
\* were last referenced by the source subpass of the record examined
InFlightFromSource(e) ==
    {a \in e.inFlightBefore :
        e.lastSubpass[a] = apiInfo.pDependencies[e.dependency].srcSubpass}

\* the iteration logged as e put a resolve-wait into the target sync point
ForcedResolveWait(e) ==
    /\ "postResolveSync" \in e.flagsAfter
    /\ e.inFlightAfter = {}

\* the iteration logged as e left the flags and the resolves in flight alone
NoResolveWait(e) ==
    /\ e.flagsAfter = e.flagsBefore
    /\ e.inFlightAfter = e.inFlightBefore

\* C20: while dependencies are resolved for target S, a record with
\* dstSubpass = S and a non-external srcSubpass forces a resolve-wait into the
\* target sync point exactly when some attachment has a resolve in flight and
\* was last referenced by that source subpass; a record whose srcSubpass is
\* external, or whose dstSubpass is not S, never forces one.
C20_DependencyResolveWait ==
    \A n \in 1..Len(dependencyLog) :
        IF /\ apiInfo.pDependencies[dependencyLog[n].dependency].dstSubpass
                  = dependencyLog[n].dstSubpass
           /\ apiInfo.pDependencies[dependencyLog[n].dependency].srcSubpass
                  # VK_SUBPASS_EXTERNAL
           /\ InFlightFromSource(dependencyLog[n]) # {}
        THEN ForcedResolveWait(dependencyLog[n])
        ELSE NoResolveWait(dependencyLog[n])

\* a dependency from a subpass that left resolves in flight forced a
\* resolve-wait into the syncTop of its destination subpass
C20_Witness ==
    \E n \in 1..Len(dependencyLog) :
        /\ dependencyLog[n].dstSubpass # VK_SUBPASS_EXTERNAL
        /\ apiInfo.pDependencies[dependencyLog[n].dependency].dstSubpass
               = dependencyLog[n].dstSubpass
        /\ InFlightFromSource(dependencyLog[n]) # {}
        /\ "postResolveSync" \notin dependencyLog[n].flagsBefore
        /\ ForcedResolveWait(dependencyLog[n])
        /\ "postResolveSync"
               \in m_pSubpasses[dependencyLog[n].dstSubpass].syncTop.barrier.flags

\* C21: after any resolve-wait every attachment of the render pass has
\* resolvesInFlight = false, not only the attachment that triggered the wait
\* and not only those last referenced by a dependency's source subpass.
C21_WaitClearsEveryAttachment ==
    \A n \in 1..Len(waitLog) : waitLog[n].inFlightAfter = {}

\* a resolve-wait found resolves of two different subpasses in flight and took
\* all of them out of flight
C21_Witness ==
    \E n \in 1..Len(waitLog) :
        /\ waitLog[n].inFlightAfter = {}
        /\ Cardinality(waitLog[n].inFlightBefore) > 2
        /\ waitLog[n].pSync.field = "syncTop"

\* C22 as amended: an invocation of the resolve-wait sets the
\* post-resolve-sync flag on its target sync point exactly when some
\* attachment has a resolve in flight on entry, and otherwise leaves the
\* flags alone; end-state construction invokes it once unconditionally, so
\* after a successful build the post-resolve-sync flag of syncEnd is set if
\* and only if a resolve-wait into syncEnd found a resolve in flight.
C22_WaitFlagsWhenInFlight ==
    /\ \A n \in 1..Len(waitLog) :
          waitLog[n].flagsAfter
              = IF waitLog[n].inFlightBefore # {}
                THEN waitLog[n].flagsBefore \cup {"postResolveSync"}
                ELSE waitLog[n].flagsBefore
    /\ PhaseRan(<<"BuildEndState">>) => \E n \in 1..Len(waitLog) : waitLog[n].pSync = SyncEnd
    /\ Built => (("postResolveSync" \in m_endState.syncEnd.barrier.flags)
                   <=> \E n \in 1..Len(waitLog) : /\ waitLog[n].pSync = SyncEnd
                                                  /\ waitLog[n].inFlightBefore # {})

\* a successful build of a pass that resolves in some subpass, whose
\* end-state resolve-wait found nothing in flight and left syncEnd without
\* the post-resolve-sync flag
C22_Witness ==
    /\ Built
    /\ \E s \in DOMAIN m_pSubpasses : Len(m_pSubpasses[s].resolves) > 0
    /\ \E n \in 1..Len(waitLog) : /\ waitLog[n].pSync = SyncEnd
                                  /\ waitLog[n].inFlightBefore = {}
    /\ "postResolveSync" \notin m_endState.syncEnd.barrier.flags

\* C22 as stated: every invocation of the resolve-wait sets the
\* post-resolve-sync flag on its target sync point, and the flag of syncEnd is
\* set after every successful build.
C22_AsStated ==
    /\ \A n \in 1..Len(waitLog) : "postResolveSync" \in waitLog[n].flagsAfter
    /\ Built => ("postResolveSync" \in m_endState.syncEnd.barrier.flags)

\* subpass S is the first subpass that references some attachment
IsFirstUseSubpass(S) ==
    \E a \in 0..(apiInfo.attachmentCount - 1) :
        (ReferencingSubpasses(a) # {}) /\ (SetMin(ReferencingSubpasses(a)) = S)

\* subpass S is the last subpass that references some attachment
IsFinalUseSubpass(S) ==
    \E a \in 0..(apiInfo.attachmentCount - 1) :
        (ReferencingSubpasses(a) # {}) /\ (SetMax(ReferencingSubpasses(a)) = S)

\* the dependency list holds a record from src to dst
HasDependency(src, dst) ==
    \E d \in 0..(apiInfo.dependencyCount - 1) :
        /\ apiInfo.pDependencies[d].srcSubpass = src
        /\ apiInfo.pDependencies[d].dstSubpass = dst

\* C23: for every subpass S, once BuildSubpass(S) has run, the
\* implicit-incoming flag of S's syncTop is set if and only if S is the
\* first-use subpass of at least one attachment and the dependency list holds
\* no record from external to S (before that it is clear); the flag is never
\* set on syncPreResolve, syncBottom or syncEnd.
C23_ImplicitIncoming ==
    /\ \A S \in DOMAIN m_pSubpasses :
          /\ ("implicitExternalIncoming" \in m_pSubpasses[S].syncTop.barrier.flags)
                 <=> /\ PhaseRan(<<"BuildSubpass", S>>)
                     /\ IsFirstUseSubpass(S)
                     /\ ~HasDependency(VK_SUBPASS_EXTERNAL, S)
          /\ "implicitExternalIncoming" \notin m_pSubpasses[S].syncPreResolve.barrier.flags
          /\ "implicitExternalIncoming" \notin m_pSubpasses[S].syncBottom.barrier.flags
    /\ InitialStateBuilt => "implicitExternalIncoming" \notin m_endState.syncEnd.barrier.flags

\* a built pass with a first-use subpass that has the flag, and a first-use
\* subpass that has an explicit external incoming dependency and no flag
C23_Witness ==
    /\ Built
    /\ \E S, T \in DOMAIN m_pSubpasses :
          /\ IsFirstUseSubpass(S)
          /\ "implicitExternalIncoming" \in m_pSubpasses[S].syncTop.barrier.flags
          /\ IsFirstUseSubpass(T)
          /\ HasDependency(VK_SUBPASS_EXTERNAL, T)
          /\ "implicitExternalIncoming" \notin m_pSubpasses[T].syncTop.barrier.flags

\* C24: once BuildEndState has run, the implicit-outgoing flag of syncEnd is
\* set if and only if some subpass is the final-use subpass of at least one
\* attachment and the dependency list holds no record from that subpass to
\* external (before that it is clear); the flag is never set on a
\* per-subpass sync point.
C24_ImplicitOutgoing ==
    /\ InitialStateBuilt =>
          (("implicitExternalOutgoing" \in m_endState.syncEnd.barrier.flags)
              <=> /\ PhaseRan(<<"BuildEndState">>)
                  /\ \E S \in 0..(apiInfo.subpassCount - 1) :
                         IsFinalUseSubpass(S) /\ ~HasDependency(S, VK_SUBPASS_EXTERNAL))
    /\ \A S \in DOMAIN m_pSubpasses :
          /\ "implicitExternalOutgoing" \notin m_pSubpasses[S].syncTop.barrier.flags
          /\ "implicitExternalOutgoing" \notin m_pSubpasses[S].syncPreResolve.barrier.flags
          /\ "implicitExternalOutgoing" \notin m_pSubpasses[S].syncBottom.barrier.flags

\* a built pass whose only final-use subpass has an explicit dependency to
\* external, so that syncEnd is left without the flag
C24_Witness ==
    /\ Built
    /\ \E S \in DOMAIN m_pSubpasses : IsFinalUseSubpass(S)
    /\ \A S \in DOMAIN m_pSubpasses : IsFinalUseSubpass(S) => HasDependency(S, VK_SUBPASS_EXTERNAL)
    /\ "implicitExternalOutgoing" \notin m_endState.syncEnd.barrier.flags

\* the logged calls that track attachment a for the end state
EndCalls(a) ==
    {n \in 1..Len(trackLog) : /\ trackLog[n].subpass = VK_SUBPASS_EXTERNAL
                              /\ trackLog[n].attachment = a}

\* the logged calls that track attachment a for a subpass
SubpassCalls(a) ==
    {n \in 1..Len(trackLog) : /\ trackLog[n].subpass # VK_SUBPASS_EXTERNAL
                              /\ trackLog[n].attachment = a}

\* the layout attachment a was left in after the last subpass
LeftIn(a) ==
    IF SubpassCalls(a) = {}
    THEN RPImageLayout(apiInfo.pAttachments[a].initialLayout, {})
    ELSE trackLog[SetMax(SubpassCalls(a))].layout

\* (finalLayout, 0) of attachment a
FinalLayout(a) == RPImageLayout(apiInfo.pAttachments[a].finalLayout, {})

\* the positions of syncEnd's transition list that name attachment a
EndTransitionsOf(a) ==
    {i \in 1..Len(m_endState.syncEnd.transitions) :
        m_endState.syncEnd.transitions[i].attachment = a}

\* C25: a successful end-state construction tracks every attachment,
\* referenced by a subpass or not, exactly once with its declared final layout
\* and extra usage 0: syncEnd holds one transition for attachment A if the
\* layout A was left in after the last subpass differs from (finalLayout, 0)
\* and none otherwise, and afterwards every attachment's tracked layout is
\* (finalLayout, 0).
C25_EndStateTracksEveryAttachment ==
    EndStateReturnedSuccess =>
        \A a \in 0..(apiInfo.attachmentCount - 1) :
            /\ Cardinality(EndCalls(a)) = 1
            /\ \A n \in EndCalls(a) :
                  /\ trackLog[n].refType = AttachRefExternalPostInstance
                  /\ trackLog[n].layout = FinalLayout(a)
                  /\ trackLog[n].pSync = SyncEnd
                  /\ n > Len(trackLog) - apiInfo.attachmentCount
            /\ Cardinality(EndTransitionsOf(a)) = IF LeftIn(a) # FinalLayout(a) THEN 1 ELSE 0
            /\ \A i \in EndTransitionsOf(a) :
                  /\ m_endState.syncEnd.transitions[i].prevLayout = LeftIn(a)
                  /\ m_endState.syncEnd.transitions[i].nextLayout = FinalLayout(a)
            /\ m_pAttachments[a].prevReferenceLayout = FinalLayout(a)

\* a successful end state with a transition for an attachment no subpass
\* references and none for an attachment a subpass left in its final layout
C25_Witness ==
    /\ EndStateReturnedSuccess
    /\ \E a, b \in 0..(apiInfo.attachmentCount - 1) :
          /\ ReferencingSubpasses(a) = {}
          /\ Cardinality(EndTransitionsOf(a)) = 1
          /\ SubpassCalls(b) # {}
          /\ LeftIn(b) = FinalLayout(b)
          /\ EndTransitionsOf(b) = {}

\* the activity predicate on a finalized sync point: a non-zero mask, a flag
\* bit or at least one transition
FinalizedActive(sync) ==
    \/ sync.barrier.srcStageMask # 0
    \/ sync.barrier.dstStageMask # 0
    \/ sync.barrier.srcAccessMask # 0
    \/ sync.barrier.dstAccessMask # 0
    \/ sync.barrier.flags # {}
    \/ sync.transitionCount > 0

\* in the finalized structure every cached flag agrees with its sync point
CachedFlagsAgree ==
    /\ \A s \in DOMAIN BuiltInfo.pSubpasses :
          /\ BuiltInfo.pSubpasses[s].begin.flags.hasTopSyncPoint
                 = FinalizedActive(BuiltInfo.pSubpasses[s].begin.syncTop)
          /\ BuiltInfo.pSubpasses[s].end.flags.hasPreResolveSyncPoint
                 = FinalizedActive(BuiltInfo.pSubpasses[s].end.syncPreResolve)
          /\ BuiltInfo.pSubpasses[s].end.flags.hasBottomSyncPoint
                 = FinalizedActive(BuiltInfo.pSubpasses[s].end.syncBottom)
    /\ BuiltInfo.end.flags.hasEndSyncPoint = FinalizedActive(BuiltInfo.end.syncEnd)

\* a step leaves alone every subpass whose flags have been cached, and the
\* end state once its flag has been cached
CachedSyncPointsUntouched ==
    /\ \A s \in DOMAIN m_pSubpasses :
          PhaseRan(<<"BuildSubpass", s>>) => (m_pSubpasses'[s] = m_pSubpasses[s])
    /\ PhaseRan(<<"BuildEndState">>) => (m_endState' = m_endState)

\* C26: in the finalized structure every cached activity flag equals the
\* activity predicate evaluated on the final contents of its sync point
\* (hasTopSyncPoint, hasPreResolveSyncPoint, hasBottomSyncPoint,
\* hasEndSyncPoint), and no step changes a sync point after its cached flag
\* has been computed.
C26_CachedFlagsMatchFinalContents ==
    [][ /\ Built' => CachedFlagsAgree'
        /\ CachedSyncPointsUntouched ]_vars

\* a finalized structure holding an active and an inactive syncTop, and a
\* syncEnd that is active only through its transitions
C26_Witness ==
    /\ Built
    /\ CachedFlagsAgree
    /\ \E s, t \in DOMAIN BuiltInfo.pSubpasses :
          /\ BuiltInfo.pSubpasses[s].begin.flags.hasTopSyncPoint
          /\ ~BuiltInfo.pSubpasses[t].begin.flags.hasTopSyncPoint
    /\ BuiltInfo.end.flags.hasEndSyncPoint
    /\ BuiltInfo.end.syncEnd.barrier.flags = {}
    /\ BuiltInfo.end.syncEnd.barrier.srcStageMask = 0
    /\ BuiltInfo.end.syncEnd.barrier.dstStageMask = 0
    /\ BuiltInfo.end.syncEnd.barrier.srcAccessMask = 0
    /\ BuiltInfo.end.syncEnd.barrier.dstAccessMask = 0

\* one tracking call, as compared by C27
Call(refType, attachment, layout, pSync) ==
    [refType |-> refType, attachment |-> attachment, layout |-> layout, pSync |-> pSync]

\* the calls for the used references of an array, from slot target on
RECURSIVE ReferenceCalls(_, _, _, _, _)
ReferenceCalls(refs, count, target, refType, pSync) ==
    IF (refs = nullptr) \/ (target >= count) THEN <<>>
    ELSE (IF refs[target].attachment # VK_ATTACHMENT_UNUSED
          THEN << Call(refType, refs[target].attachment,
                       RPImageLayout(refs[target].layout, {}), pSync) >>
          ELSE <<>>)
         \o ReferenceCalls(refs, count, target + 1, refType, pSync)

\* the source and destination calls of the resolve slots listed in slots
RECURSIVE ResolveCalls(_, _, _)
ResolveCalls(desc, slots, pSync) ==
    IF slots = <<>> THEN <<>>
    ELSE << Call(AttachRefResolveSrc, desc.pColorAttachments[Head(slots)].attachment,
                 RPImageLayout(desc.pColorAttachments[Head(slots)].layout, LayoutResolveSrc),
                 pSync),
            Call(AttachRefResolveDst, desc.pResolveAttachments[Head(slots)].attachment,
                 RPImageLayout(desc.pResolveAttachments[Head(slots)].layout, LayoutResolveDst),
                 pSync) >>
         \o ResolveCalls(desc, Tail(slots), pSync)

\* the tracking calls of subpass s in the order color, depth-stencil, input,
\* resolve, each kind in slot order
ExpectedCalls(s) ==
    ReferenceCalls(apiInfo.pSubpasses[s].pColorAttachments,
                   apiInfo.pSubpasses[s].colorAttachmentCount, 0,
                   AttachRefColor, SyncTopOf(s))
    \o ReferenceCalls(apiInfo.pSubpasses[s].pDepthStencilAttachment,
                      IF apiInfo.pSubpasses[s].pDepthStencilAttachment = nullptr THEN 0 ELSE 1,
                      0, AttachRefDepthStencil, SyncTopOf(s))
    \o ReferenceCalls(apiInfo.pSubpasses[s].pInputAttachments,
                      apiInfo.pSubpasses[s].inputAttachmentCount, 0,
                      AttachRefInput, SyncTopOf(s))
    \o ResolveCalls(apiInfo.pSubpasses[s], ResolveSlots(apiInfo.pSubpasses[s], 0),
                    SyncPreResolveOf(s))

\* the first n logged calls that belong to subpass s
RECURSIVE LoggedCalls(_, _)
LoggedCalls(s, n) ==
    IF n = 0 THEN <<>>
    ELSE IF trackLog[n].subpass = s
         THEN Append(LoggedCalls(s, n - 1),
                     Call(trackLog[n].refType, trackLog[n].attachment,
                          trackLog[n].layout, trackLog[n].pSync))
         ELSE LoggedCalls(s, n - 1)

\* sequence a is a prefix of sequence b
IsPrefix(a, b) == (Len(a) <= Len(b)) /\ (\A i \in 1..Len(a) : a[i] = b[i])

\* the attachments named by a list of transitions, in order
TransitionAttachments(transitions) ==
    [i \in 1..Len(transitions) |-> transitions[i].attachment]

\* C27: within each subpass references are processed in the order color (slot
\* order), depth-stencil, input (slot order), resolve (slot order);
\* transitions caused by color, depth-stencil and input references go only to
\* that subpass's syncTop in that order, those caused by resolve source and
\* destination references only to its syncPreResolve, and syncBottom never
\* receives a transition, mask or flag.
C27_ReferenceOrder ==
    \A s \in DOMAIN m_pSubpasses :
        /\ IsPrefix(LoggedCalls(s, Len(trackLog)), ExpectedCalls(s))
        /\ SubpassBuilt(s) => (LoggedCalls(s, Len(trackLog)) = ExpectedCalls(s))
        /\ \A n \in 1..Len(trackLog) :
              /\ (trackLog[n].pSync = SyncTopOf(s))
                     => /\ trackLog[n].subpass = s
                        /\ trackLog[n].refType
                               \in {AttachRefColor, AttachRefDepthStencil, AttachRefInput}
              /\ (trackLog[n].pSync = SyncPreResolveOf(s))
                     => /\ trackLog[n].subpass = s
                        /\ trackLog[n].refType \in {AttachRefResolveSrc, AttachRefResolveDst}
              /\ trackLog[n].pSync.field # "syncBottom"
        /\ ArenaOk =>
              /\ TransitionAttachments(m_pSubpasses[s].syncTop.transitions)
                     = TransitionAttachments(ExpectedTransitions(SyncTopOf(s), Len(trackLog)))
              /\ TransitionAttachments(m_pSubpasses[s].syncPreResolve.transitions)
                     = TransitionAttachments(
                           ExpectedTransitions(SyncPreResolveOf(s), Len(trackLog)))
        /\ NothingRecorded(m_pSubpasses[s].syncBottom)

\* a built subpass with a color and an input reference whose transitions sit
\* in syncTop in that order, and a built subpass whose resolve put two
\* transitions into syncPreResolve
C27_Witness ==
    /\ Built
    /\ \E s \in DOMAIN m_pSubpasses :
          /\ Len(m_pSubpasses[s].syncTop.transitions) >= 2
          /\ \E i, j \in 1..Len(ExpectedCalls(s)) :
                /\ i < j
                /\ ExpectedCalls(s)[i].refType = AttachRefColor
                /\ ExpectedCalls(s)[j].refType = AttachRefInput
                /\ m_pSubpasses[s].syncTop.transitions[1].attachment
                       = ExpectedCalls(s)[i].attachment
                /\ m_pSubpasses[s].syncTop.transitions[2].attachment
                       = ExpectedCalls(s)[j].attachment
                /\ ExpectedCalls(s)[i].attachment # ExpectedCalls(s)[j].attachment
    /\ \E s \in DOMAIN m_pSubpasses :
          Len(m_pSubpasses[s].syncPreResolve.transitions) = 2

\* attachment a takes part, as source or destination, in a resolve of subpass s
ResolvedIn(a, s) ==
    \E k \in 1..Len(ResolveSlots(apiInfo.pSubpasses[s], 0)) :
        \/ apiInfo.pSubpasses[s].pColorAttachments[
               ResolveSlots(apiInfo.pSubpasses[s], 0)[k]].attachment = a
        \/ apiInfo.pSubpasses[s].pResolveAttachments[
               ResolveSlots(apiInfo.pSubpasses[s], 0)[k]].attachment = a

\* subpass t makes a tracked reference to attachment a
TrackedIn(a, t) ==
    \E i \in 1..Len(ExpectedCalls(t)) : ExpectedCalls(t)[i].attachment = a

\* the subpasses after s that make a tracked reference to attachment a
LaterTracking(a, s) ==
    {t \in (s + 1)..(apiInfo.subpassCount - 1) : TrackedIn(a, t)}

\* every attachment resolved in a subpass s and next tracked in a subpass
\* t > s comes with a dependency record from s to t
CorrectlyAnnotated ==
    \A a \in 0..(apiInfo.attachmentCount - 1) : \A s \in 0..(apiInfo.subpassCount - 1) :
        (ResolvedIn(a, s) /\ (LaterTracking(a, s) # {}))
            => HasDependency(s, SetMin(LaterTracking(a, s)))

\* C28: the courtesy branch of TrackAttachmentUsage is not taken for
\* correctly annotated input: if every attachment that takes part in a
\* resolve in subpass s and whose next tracked reference is in subpass t > s
\* has a dependency record from s to t, no call made for a subpass takes the
\* branch; and no call made during end-state construction takes it, for any
\* input.
C28_CourtesyBranchUnreachable ==
    \A n \in 1..Len(trackLog) :
        /\ (trackLog[n].subpass = VK_SUBPASS_EXTERNAL) => ~trackLog[n].courtesy
        /\ CorrectlyAnnotated => ~trackLog[n].courtesy

\* a built, correctly annotated pass in which an attachment resolved in one
\* subpass is tracked again in a later one, after the dependency between the
\* two forced a resolve-wait
C28_Witness ==
    /\ Built
    /\ CorrectlyAnnotated
    /\ \E a \in 0..(apiInfo.attachmentCount - 1) : \E s \in 0..(apiInfo.subpassCount - 1) :
          /\ ResolvedIn(a, s)
          /\ LaterTracking(a, s) # {}
          /\ \E n \in 1..Len(dependencyLog) :
                /\ dependencyLog[n].dstSubpass = SetMin(LaterTracking(a, s))
                /\ apiInfo.pDependencies[dependencyLog[n].dependency].srcSubpass = s
                /\ a \in dependencyLog[n].inFlightBefore
                /\ ForcedResolveWait(dependencyLog[n])
    /\ \A n \in 1..Len(trackLog) : ~trackLog[n].courtesy

\* the transitions of a finalized sync point that name attachment a
TransitionsNaming(sync, a) ==
    SelectSeq(sync.pTransitions, LAMBDA t : t.attachment = a)

\* the transitions naming attachment a in the finalized subpasses s.., each
\* subpass in the order syncTop, syncPreResolve, syncBottom
RECURSIVE SubpassChain(_, _)
SubpassChain(a, s) ==
    IF s >= apiInfo.subpassCount THEN <<>>
    ELSE TransitionsNaming(BuiltInfo.pSubpasses[s].begin.syncTop, a)
         \o TransitionsNaming(BuiltInfo.pSubpasses[s].end.syncPreResolve, a)
         \o TransitionsNaming(BuiltInfo.pSubpasses[s].end.syncBottom, a)
         \o SubpassChain(a, s + 1)

\* all transition records naming attachment a, in the order they are generated
Chain(a) == SubpassChain(a, 0) \o TransitionsNaming(BuiltInfo.end.syncEnd, a)

\* C29: for every attachment the transition records naming it, in the order
\* they are generated over the whole build (subpass 0..N-1, syncTop before
\* syncPreResolve, then syncEnd), form an unbroken chain: the first starts
\* at (initialLayout, 0), each later one starts at the layout the preceding
\* one ends at, and the last ends at (finalLayout, 0).
C29_UnbrokenLayoutChain ==
    Built =>
        \A a \in 0..(apiInfo.attachmentCount - 1) :
            /\ (Len(Chain(a)) > 0)
                   => /\ Chain(a)[1].prevLayout
                             = RPImageLayout(apiInfo.pAttachments[a].initialLayout, {})
                      /\ Chain(a)[Len(Chain(a))].nextLayout = FinalLayout(a)
            /\ \A i \in 2..Len(Chain(a)) :
                  Chain(a)[i].prevLayout = Chain(a)[i - 1].nextLayout
            /\ (Len(Chain(a)) = 0)
                   => (apiInfo.pAttachments[a].initialLayout = apiInfo.pAttachments[a].finalLayout)

\* a finalized pass with an attachment whose chain has at least three links,
\* through a syncTop, a syncPreResolve and syncEnd, and whose initial layout
\* is not the undefined one
C29_Witness ==
    /\ Built
    /\ \E a \in 0..(apiInfo.attachmentCount - 1) :
          /\ Len(Chain(a)) >= 3
          /\ \E s \in 0..(apiInfo.subpassCount - 1) :
                Len(TransitionsNaming(BuiltInfo.pSubpasses[s].end.syncPreResolve, a)) > 0
          /\ Chain(a)[Len(Chain(a)) - 1].nextLayout = Chain(a)[Len(Chain(a))].prevLayout
    /\ \E a \in 0..(apiInfo.attachmentCount - 1) :
          /\ Len(Chain(a)) >= 1
          /\ apiInfo.pAttachments[a].initialLayout # VK_IMAGE_LAYOUT_UNDEFINED

\* the resolve list the builder holds for subpass s names attachment a
NamedByResolveOf(a, s) ==
    \E r \in 1..Len(m_pSubpasses[s].resolves) :
        a \in { m_pSubpasses[s].resolves[r].src.attachment,
                m_pSubpasses[s].resolves[r].dst.attachment }

\* subpass s has scheduled a resolve on attachment a and no sync point after
\* the resolves of s carries a resolve-wait
UnfinishedResolve(a, s) ==
    NamedByResolveOf(a, s) /\ ~ResolveWaitBetween(s, SyncEnd)

\* what the check made for a dependency's source subpass s finds
FoundInFlightFrom(s) ==
    {a \in DOMAIN m_pAttachments :
        m_pAttachments[a].resolvesInFlight /\ (m_pAttachments[a].prevReferenceSubpass = s)}

\* between the build operations of a build that has not failed, an attachment
\* with a resolve in flight was last referenced by a real subpass whose
\* resolve list names it
InFlightHasResolveRecord ==
    (result = Success) =>
        \A a \in DOMAIN m_pAttachments :
            m_pAttachments[a].resolvesInFlight
                => /\ m_pAttachments[a].prevReferenceSubpass # VK_SUBPASS_EXTERNAL
                   /\ m_pAttachments[a].prevReferenceSubpass \in DOMAIN m_pSubpasses
                   /\ NamedByResolveOf(a, m_pAttachments[a].prevReferenceSubpass)

\* C30: at every point between build operations of a successful build, any
\* attachment with resolvesInFlight = true has prevReferenceSubpass equal to a
\* real subpass index s whose resolve list holds a record naming it as source
\* or destination; so the check made for a dependency's source subpass (in
\* flight and last referenced by that subpass) finds exactly the attachments
\* with an unfinished resolve scheduled by that subpass.
C30_InFlightMeansUnfinishedResolve ==
    /\ InFlightHasResolveRecord
    /\ (result = Success) =>
          \A s \in DOMAIN m_pSubpasses :
              FoundInFlightFrom(s) = {a \in DOMAIN m_pAttachments : UnfinishedResolve(a, s)}

====
